---- MODULE Spec2Model ----
(***************************************************************************)
(* Model of the fetch -> parse -> match -> score -> dedupe -> rank         *)
(* pipeline of the Client Mentions Monitor (src/app.py).                   *)
(*                                                                         *)
(* Text is a sequence of Unicode code points (naturals), so that case      *)
(* folding, compatibility decomposition, slicing, searching and the        *)
(* code-point ordering used by sort are computed, not assumed.  A missing  *)
(* dictionary key, None and "" are all falsy to the code and are all the   *)
(* empty sequence here.  Times are whole days.                             *)
(***************************************************************************)
EXTENDS Integers, Sequences, FiniteSets, TLC

(***************************************************************************)
(* Characters.  The tables are exact on the alphabet the model's texts use *)
(* (printable ASCII, TAB/LF/CR, U+00A0, U+00C5, U+00C9, U+00E5, U+00E9,    *)
(* U+00F8, U+02BC, U+0301, U+030A, U+2019, U+210C, U+FB03).                *)
(***************************************************************************)

\* str.lower() on one character
Lower(c) ==
    IF c \in 65..90 THEN c + 32
    ELSE IF (c \in 192..214) \/ (c \in 216..222) THEN c + 32
    ELSE c

\* unicodedata.normalize("NFKD", ch) for one character
NFKD(c) ==
    CASE c = 160   -> <<32>>
      [] c = 197   -> <<65, 778>>
      [] c = 201   -> <<69, 769>>
      [] c = 229   -> <<97, 778>>
      [] c = 233   -> <<101, 769>>
      [] c = 8460  -> <<72>>
      [] c = 64259 -> <<102, 102, 105>>
      [] OTHER     -> <<c>>

\* unicodedata.combining(ch) != 0
Combining(c) == c \in 768..879

\* the regular expression class \w (str patterns: alphanumerics and "_")
IsWord(c) ==
    \/ c \in 48..57
    \/ c \in 65..90
    \/ c \in 97..122
    \/ c = 95
    \/ c \in {197, 201, 229, 233, 248, 700, 8460, 64259}

\* str.isspace(), also the class \s
IsSpace(c) == c \in {9, 10, 11, 12, 13, 28, 29, 30, 31, 32, 133, 160}

(***************************************************************************)
(* Strings                                                                 *)
(***************************************************************************)
Min(a, b) == IF a <= b THEN a ELSE b

\* s[:n]
Prefix(s, n) == SubSeq(s, 1, Min(Len(s), n))

\* s[p:]  (p is a 1-based position)
From(s, p) == SubSeq(s, p, Len(s))

\* str.lower()
StrLower(s) == [i \in 1..Len(s) |-> Lower(s[i])]

RECURSIVE Flatten(_)
\* "".join of a sequence of strings (by halves, to keep the evaluation shallow)
Flatten(ss) ==
    IF ss = <<>> THEN <<>>
    ELSE IF Len(ss) = 1 THEN ss[1]
    ELSE LET half == Len(ss) \div 2
         IN  Flatten(SubSeq(ss, 1, half)) \o Flatten(SubSeq(ss, half + 1, Len(ss)))

RECURSIVE LStrip(_)
LStrip(s) == IF s # <<>> /\ IsSpace(Head(s)) THEN LStrip(Tail(s)) ELSE s

RECURSIVE RStrip(_)
RStrip(s) ==
    IF s # <<>> /\ IsSpace(s[Len(s)]) THEN RStrip(SubSeq(s, 1, Len(s) - 1)) ELSE s

\* str.strip()
Strip(s) == RStrip(LStrip(s))

\* pat occurs in s at position p (exact comparison)
OccursAt(pat, s, p) ==
    /\ p >= 1
    /\ p + Len(pat) - 1 <= Len(s)
    /\ \A i \in 1..Len(pat) : s[p + i - 1] = pat[i]

\* pat in s
Contains(pat, s) == \E p \in 1..(Len(s) + 1) : OccursAt(pat, s, p)

RECURSIVE CountFrom(_, _, _)
\* the occurrences counted from position p on: the leftmost one, then those
\* behind its end
CountFrom(pat, s, p) ==
    LET occ == {k \in p..(Len(s) + 1) : OccursAt(pat, s, k)}
    IN  IF occ = {} THEN 0
        ELSE LET k == CHOOSE k \in occ : \A j \in occ : k <= j
             IN  1 + CountFrom(pat, s, k + (IF Len(pat) = 0 THEN 1 ELSE Len(pat)))

\* s.count(pat): non-overlapping occurrences, scanning from the left
Count(pat, s) == CountFrom(pat, s, 1)

\* a < b for str (code-point lexicographic order)
StrLess(a, b) ==
    LET m    == Min(Len(a), Len(b))
        diff == {i \in 1..m : a[i] # b[i]}
    IN  IF diff = {} THEN Len(a) < Len(b)
        ELSE LET i == CHOOSE i \in diff : \A j \in diff : i <= j
             IN  a[i] < b[i]

StrLeq(a, b) == a = b \/ StrLess(a, b)

(***************************************************************************)
(* Text handling and scoring (src/app.py 231-274)                          *)
(***************************************************************************)
NotCombining(c) == ~Combining(c)

_normalise_text(s) ==
    SelectSeq(Flatten([i \in 1..Len(s) |-> NFKD(Lower(s[i]))]), NotCombining)

\* APOS_CLASS = [' U+2019 U+02BC]                              (line 231)
APOS_CLASS == {39, 8217, 700}

\* The alternatives of one client's pattern.  Every alternative is
\*   BOUNDARY pre base [APOS_CLASS "s"] END_BOUND
\* with pre empty, "@" or "#"; the regular expression is kept as these parts.
_name_variants_short(name) ==
    LET base == Strip(_normalise_text(name))
    IN  IF Len(name) < 3 THEN <<>>
        ELSE << [pre |-> <<>>,   base |-> base, poss |-> FALSE],
                [pre |-> <<>>,   base |-> base, poss |-> TRUE],
                [pre |-> <<64>>, base |-> base, poss |-> FALSE],
                [pre |-> <<35>>, base |-> base, poss |-> FALSE] >>

_name_variants_handles(name) ==
    LET base == Strip(_normalise_text(name))
        NotSpace(c) == c # 32
        handle == SelectSeq(base, NotSpace)
    IN  IF Len(base) < 3 THEN <<>>
        ELSE << [pre |-> <<>>,   base |-> base, poss |-> FALSE],
                [pre |-> <<>>,   base |-> base, poss |-> TRUE],
                [pre |-> <<64>>, base |-> handle, poss |-> FALSE],
                [pre |-> <<35>>, base |-> handle, poss |-> FALSE] >>

_name_variants(name) ==
    LET base == Strip(_normalise_text(name))
    IN  IF Len(base) < 3 THEN <<>>
        ELSE << [pre |-> <<>>,   base |-> base, poss |-> FALSE],
                [pre |-> <<>>,   base |-> base, poss |-> TRUE],
                [pre |-> <<64>>, base |-> base, poss |-> FALSE],
                [pre |-> <<35>>, base |-> base, poss |-> FALSE] >>

\* BOUNDARY = (?:(?<!\w)|\b) at the gap before position p          (line 232)
BOUNDARY(s, p) ==
    LET prevWord == p > 1 /\ IsWord(s[p - 1])
        nextWord == p <= Len(s) /\ IsWord(s[p])
    IN  (~prevWord) \/ (prevWord # nextWord)

\* END_BOUND = (?!\w) at the gap before position q                 (line 233)
END_BOUND(s, q) == ~(q <= Len(s) /\ IsWord(s[q]))

\* a literal of the pattern at position p, under re.IGNORECASE
LiteralAt(lit, s, p) ==
    /\ p + Len(lit) - 1 <= Len(s)
    /\ \A i \in 1..Len(lit) : Lower(s[p + i - 1]) = Lower(lit[i])

VariantAt(v, s, p) ==
    LET lit == v.pre \o v.base
        q   == p + Len(lit)
    IN  /\ BOUNDARY(s, p)
        /\ LiteralAt(lit, s, p)
        /\ IF v.poss
           THEN /\ q + 1 <= Len(s)
                /\ s[q] \in APOS_CLASS
                /\ Lower(s[q + 1]) = 115
                /\ END_BOUND(s, q + 2)
           ELSE END_BOUND(s, q)

\* pat.search(n) for the pattern compiled from the variants
Search(variants, n) ==
    \E i \in 1..Len(variants) : \E p \in 1..(Len(n) + 1) : VariantAt(variants[i], n, p)

\* the keyword list of _calculate_relevance_score                  (line 271)
KEYWORDS ==
    << <<97, 108, 98, 117, 109>>,                      \* album
       <<115, 105, 110, 103, 108, 101>>,               \* single
       <<116, 111, 117, 114>>,                         \* tour
       <<99, 111, 110, 99, 101, 114, 116>>,            \* concert
       <<114, 101, 108, 101, 97, 115, 101>>,           \* release
       <<110, 101, 119>>,                              \* new
       <<97, 110, 110, 111, 117, 110, 99, 101, 115>>,  \* announces
       <<112, 101, 114, 102, 111, 114, 109, 115>> >>   \* performs

\* Scores are in tenths: 10 is 1.0, 50 is 5.0.
BaseScore == 10
TitleBonus == 20
LeadBonus == 7
LeadChars == 200
RepeatBonus == 5
KeywordBonus == 3
ScoreCap == 50

_calculate_relevance_score_uncapped(text, client, title) ==
    LET norm_text   == _normalise_text(text)
        norm_client == _normalise_text(client)
        norm_title  == _normalise_text(title)
        mentions    == Count(norm_client, norm_text)
        kws         == Cardinality({k \in 1..Len(KEYWORDS) : Contains(KEYWORDS[k], norm_text)})
    IN  BaseScore
          + (IF Contains(norm_client, norm_title) THEN TitleBonus ELSE 0)
          + (IF Contains(norm_client, Prefix(norm_text, LeadChars)) THEN LeadBonus ELSE 0)
          + (IF mentions > 1 THEN RepeatBonus * (mentions - 1) ELSE 0)
          + KeywordBonus * kws

_calculate_relevance_score_no_lead(text, client, title) ==
    LET norm_text   == _normalise_text(text)
        norm_client == _normalise_text(client)
        norm_title  == _normalise_text(title)
        mentions    == Count(norm_client, norm_text)
        kws         == Cardinality({k \in 1..Len(KEYWORDS) : Contains(KEYWORDS[k], norm_text)})
    IN  Min(BaseScore
              + (IF Contains(norm_client, norm_title) THEN TitleBonus ELSE 0)
              + (IF mentions > 1 THEN RepeatBonus * (mentions - 1) ELSE 0)
              + KeywordBonus * kws,
            ScoreCap)

_calculate_relevance_score_lead_anywhere(text, client, title) ==
    LET norm_text   == _normalise_text(text)
        norm_client == _normalise_text(client)
        norm_title  == _normalise_text(title)
        mentions    == Count(norm_client, norm_text)
        kws         == Cardinality({k \in 1..Len(KEYWORDS) : Contains(KEYWORDS[k], norm_text)})
    IN  Min(BaseScore
              + (IF Contains(norm_client, norm_title) THEN TitleBonus ELSE 0)
              + (IF Contains(norm_client, norm_text) THEN LeadBonus ELSE 0)
              + (IF mentions > 1 THEN RepeatBonus * (mentions - 1) ELSE 0)
              + KeywordBonus * kws,
            ScoreCap)

_calculate_relevance_score(text, client, title) ==
    LET norm_text   == _normalise_text(text)
        norm_client == _normalise_text(client)
        norm_title  == _normalise_text(title)
        mentions    == Count(norm_client, norm_text)
        kws         == Cardinality({k \in 1..Len(KEYWORDS) : Contains(KEYWORDS[k], norm_text)})
    IN  Min(BaseScore
              + (IF Contains(norm_client, norm_title) THEN TitleBonus ELSE 0)
              + (IF Contains(norm_client, Prefix(norm_text, LeadChars)) THEN LeadBonus ELSE 0)
              + (IF mentions > 1 THEN RepeatBonus * (mentions - 1) ELSE 0)
              + KeywordBonus * kws,
            ScoreCap)

\* _clean_html: tags to a blank, runs of whitespace to one blank, strip.
\* html.unescape is the identity on texts without "&".
\* re.sub(r"<[^>]+>", " ", s).  A "<" can open a tag when a ">" follows
\* with at least one other character between them; it does open one unless
\* it lies inside a tag opened further left.
DropTags(s) ==
    LET CanOpen(i) == /\ s[i] = 60
                      /\ i + 1 <= Len(s) /\ s[i + 1] # 62
                      /\ \E j \in (i + 2)..Len(s) : s[j] = 62
        Inside(i)  == \E k \in 1..(i - 1) :
                          CanOpen(k) /\ \A j \in (k + 1)..i : s[j] # 62
        Close(i)   == \E k \in 1..(i - 1) :
                          CanOpen(k) /\ s[i] = 62 /\ \A j \in (k + 1)..(i - 1) : s[j] # 62
        Piece(i)   == IF Inside(i) \/ Close(i) THEN <<>>
                      ELSE IF CanOpen(i) THEN <<32>>
                      ELSE <<s[i]>>
    IN  Flatten([i \in 1..Len(s) |-> Piece(i)])

\* re.sub(r"\s+", " ", s)
Collapse(s) ==
    LET Piece(i) == IF ~IsSpace(s[i]) THEN <<s[i]>>
                    ELSE IF i > 1 /\ IsSpace(s[i - 1]) THEN <<>>
                    ELSE <<32>>
    IN  Flatten([i \in 1..Len(s) |-> Piece(i)])

_clean_html(text) == IF text = <<>> THEN <<>> ELSE Strip(Collapse(DropTags(text)))

(***************************************************************************)
(* URLs (urllib.parse as used by canonicalise_url and _get_domain).        *)
(* The ";params" part of a path is left inside the path: urlunparse puts   *)
(* it back where urlparse took it from.                                    *)
(***************************************************************************)
\* the smallest position >= from whose character is in set, else Len(s) + 1
FirstIndex(s, set, from) ==
    IF \E i \in from..Len(s) : s[i] \in set
    THEN CHOOSE i \in from..Len(s) : s[i] \in set /\ \A k \in from..(i - 1) : s[k] \notin set
    ELSE Len(s) + 1

IsAsciiLetter(c) == (c \in 65..90) \/ (c \in 97..122)

SchemeChar(c) == IsAsciiLetter(c) \/ (c \in 48..57) \/ (c \in {43, 45, 46})

RECURSIVE LStripC0(_)
\* url.lstrip of blanks and C0 control characters
LStripC0(s) == IF s # <<>> /\ Head(s) <= 32 THEN LStripC0(Tail(s)) ELSE s

\* urlparse(url): ok is FALSE where urlsplit raises ValueError (unbalanced
\* bracket in the netloc)
urlparse(url0) ==
    LET NotTabNl(c) == c \notin {9, 10, 13}
        url1 == SelectSeq(LStripC0(url0), NotTabNl)
        i    == FirstIndex(url1, {58}, 1)
        hasScheme == /\ i > 1 /\ i <= Len(url1)
                     /\ IsAsciiLetter(url1[1])
                     /\ \A k \in 1..(i - 1) : SchemeChar(url1[k])
        scheme == IF hasScheme THEN StrLower(SubSeq(url1, 1, i - 1)) ELSE <<>>
        url2   == IF hasScheme THEN From(url1, i + 1) ELSE url1
        hasNet == Len(url2) >= 2 /\ url2[1] = 47 /\ url2[2] = 47
        delim  == FirstIndex(url2, {47, 63, 35}, 3)
        netloc == IF hasNet THEN SubSeq(url2, 3, delim - 1) ELSE <<>>
        url3   == IF hasNet THEN From(url2, delim) ELSE url2
        h      == FirstIndex(url3, {35}, 1)
        frag   == From(url3, h + 1)
        url4   == SubSeq(url3, 1, h - 1)
        q      == FirstIndex(url4, {63}, 1)
        query  == From(url4, q + 1)
        path   == SubSeq(url4, 1, q - 1)
        open   == \E k \in 1..Len(netloc) : netloc[k] = 91
        close  == \E k \in 1..Len(netloc) : netloc[k] = 93
    IN  [ok |-> open = close, scheme |-> scheme, netloc |-> netloc,
         path |-> path, query |-> query, fragment |-> frag]

\* the schemes of urllib.parse.uses_netloc that have a model text
USES_NETLOC ==
    { <<>>,
      <<104, 116, 116, 112>>,          \* http
      <<104, 116, 116, 112, 115>>,     \* https
      <<102, 116, 112>> }              \* ftp

urlunparse(u) ==
    LET url1 == IF u.netloc # <<>>
                   \/ (u.scheme # <<>> /\ u.scheme \in USES_NETLOC
                         /\ Prefix(u.path, 2) # <<47, 47>>)
                THEN <<47, 47>> \o u.netloc
                       \o (IF u.path # <<>> /\ u.path[1] # 47 THEN <<47>> ELSE <<>>)
                       \o u.path
                ELSE u.path
        url2 == IF u.scheme # <<>> THEN u.scheme \o <<58>> \o url1 ELSE url1
        url3 == IF u.query # <<>> THEN url2 \o <<63>> \o u.query ELSE url2
    IN  IF u.fragment # <<>> THEN url3 \o <<35>> \o u.fragment ELSE url3

RECURSIVE Split(_, _)
\* s.split(sep) for a one-character separator
Split(s, sep) ==
    LET i == FirstIndex(s, {sep}, 1)
    IN  IF i > Len(s) THEN <<s>>
        ELSE <<SubSeq(s, 1, i - 1)>> \o Split(From(s, i + 1), sep)

IsHex(c) == (c \in 48..57) \/ (c \in 65..70) \/ (c \in 97..102)

HexVal(c) == IF c \in 48..57 THEN c - 48 ELSE IF c \in 65..70 THEN c - 55 ELSE c - 87

HexDigit(n) == IF n < 10 THEN 48 + n ELSE 55 + n

RECURSIVE unquote(_)
\* urllib.parse.unquote; a lone byte >= 0x80 decodes to U+FFFD
unquote(s) ==
    IF s = <<>> THEN <<>>
    ELSE IF Head(s) = 37 /\ Len(s) >= 3 /\ IsHex(s[2]) /\ IsHex(s[3])
         THEN LET b == 16 * HexVal(s[2]) + HexVal(s[3])
              IN  <<IF b < 128 THEN b ELSE 65533>> \o unquote(From(s, 4))
         ELSE <<Head(s)>> \o unquote(Tail(s))

PlusToSpace(s) == [i \in 1..Len(s) |-> IF s[i] = 43 THEN 32 ELSE s[i]]

\* the UTF-8 bytes of one character below U+10000
Utf8(c) ==
    IF c < 128 THEN <<c>>
    ELSE IF c < 2048 THEN <<192 + (c \div 64), 128 + (c % 64)>>
    ELSE <<224 + (c \div 4096), 128 + ((c \div 64) % 64), 128 + (c % 64)>>

PercentByte(b) == <<37, HexDigit(b \div 16), HexDigit(b % 16)>>

\* urllib.parse.quote_plus of one character
QuotePlusChar(c) ==
    IF IsAsciiLetter(c) \/ (c \in 48..57) \/ (c \in {95, 46, 45, 126}) THEN <<c>>
    ELSE IF c = 32 THEN <<43>>
    ELSE Flatten([k \in 1..Len(Utf8(c)) |-> PercentByte(Utf8(c)[k])])

quote_plus(s) == Flatten([i \in 1..Len(s) |-> QuotePlusChar(s[i])])

\* parse_qsl(query, keep_blank_values=True): a sequence of <<name, value>>
parse_qsl(query) ==
    LET NonEmpty(x) == x # <<>>
        pieces == SelectSeq(Split(query, 38), NonEmpty)
        Pair(piece) ==
            LET e == FirstIndex(piece, {61}, 1)
            IN  << unquote(PlusToSpace(SubSeq(piece, 1, e - 1))),
                   unquote(PlusToSpace(From(piece, e + 1))) >>
    IN  [k \in 1..Len(pieces) |-> Pair(pieces[k])]

RECURSIVE Join(_, _)
\* sep.join(parts)
Join(parts, sep) ==
    IF parts = <<>> THEN <<>>
    ELSE IF Len(parts) = 1 THEN parts[1]
    ELSE parts[1] \o sep \o Join(Tail(parts), sep)

\* urlencode(q, doseq=True) for string values
urlencode(q) ==
    Join([k \in 1..Len(q) |-> quote_plus(q[k][1]) \o <<61>> \o quote_plus(q[k][2])], <<38>>)

\* TRACKING_PARAMS                                                  (line 160)
TRACKING_PARAMS ==
    { <<117, 116, 109, 95, 115, 111, 117, 114, 99, 101>>,            \* utm_source
      <<117, 116, 109, 95, 109, 101, 100, 105, 117, 109>>,           \* utm_medium
      <<117, 116, 109, 95, 99, 97, 109, 112, 97, 105, 103, 110>>,    \* utm_campaign
      <<117, 116, 109, 95, 116, 101, 114, 109>>,                     \* utm_term
      <<117, 116, 109, 95, 99, 111, 110, 116, 101, 110, 116>>,       \* utm_content
      <<102, 98, 99, 108, 105, 100>>,                                \* fbclid
      <<103, 99, 108, 105, 100>>,                                    \* gclid
      <<105, 103, 115, 104, 105, 100>> }                             \* igshid

canonicalise_url(url) ==
    LET parsed == urlparse(url)
        NotTracking(kv) == kv[1] \notin TRACKING_PARAMS
        q == SelectSeq(parse_qsl(parsed.query), NotTracking)
    IN  IF ~parsed.ok THEN url
        ELSE urlunparse([parsed EXCEPT
                 !.scheme   = IF parsed.scheme # <<>> THEN parsed.scheme
                              ELSE <<104, 116, 116, 112, 115>>,
                 !.netloc   = StrLower(parsed.netloc),
                 !.fragment = <<>>,
                 !.query    = urlencode(q)])

(***************************************************************************)
(* Decoding (src/app.py 198-206).  Bytes are numbers 0..255; an encoding   *)
(* hint is its name, "None" for None and "" for the empty string.          *)
(***************************************************************************)
IsCont(b) == b \in 128..191

\* the bytes the UTF-8 decoder takes at the head of bs, and the character
\* they give: IllFormed for a maximal ill-formed part
IllFormed == 0 - 1

Utf8Head(bs) ==
    LET b1   == bs[1]
        has2 == Len(bs) >= 2
        has3 == Len(bs) >= 3
        has4 == Len(bs) >= 4
        lo2  == IF b1 = 224 THEN 160 ELSE IF b1 = 240 THEN 144 ELSE 128
        hi2  == IF b1 = 237 THEN 159 ELSE IF b1 = 244 THEN 143 ELSE 191
        ok2  == has2 /\ bs[2] \in lo2..hi2
    IN  IF b1 < 128 THEN [take |-> 1, ch |-> b1]
        ELSE IF b1 \in 194..223
             THEN IF has2 /\ IsCont(bs[2])
                  THEN [take |-> 2, ch |-> (b1 - 192) * 64 + (bs[2] - 128)]
                  ELSE [take |-> 1, ch |-> IllFormed]
        ELSE IF b1 \in 224..239
             THEN IF ~ok2 THEN [take |-> 1, ch |-> IllFormed]
                  ELSE IF ~(has3 /\ IsCont(bs[3])) THEN [take |-> 2, ch |-> IllFormed]
                  ELSE [take |-> 3,
                        ch |-> (b1 - 224) * 4096 + (bs[2] - 128) * 64 + (bs[3] - 128)]
        ELSE IF b1 \in 240..244
             THEN IF ~ok2 THEN [take |-> 1, ch |-> IllFormed]
                  ELSE IF ~(has3 /\ IsCont(bs[3])) THEN [take |-> 2, ch |-> IllFormed]
                  ELSE IF ~(has4 /\ IsCont(bs[4])) THEN [take |-> 3, ch |-> IllFormed]
                  ELSE [take |-> 4,
                        ch |-> (b1 - 240) * 262144 + (bs[2] - 128) * 4096
                                 + (bs[3] - 128) * 64 + (bs[4] - 128)]
        ELSE [take |-> 1, ch |-> IllFormed]

RECURSIVE Utf8Decode(_)
Utf8Decode(bs) ==
    IF bs = <<>> THEN <<>>
    ELSE <<Utf8Head(bs).ch>> \o Utf8Decode(From(bs, Utf8Head(bs).take + 1))

BOM_UTF8 == <<239, 187, 191>>

\* the characters the codec enc reads from bs, IllFormed where it finds an
\* error; known is FALSE for a name no codec has (LookupError)
CodecRead(bs, enc) ==
    IF enc = "utf-8" THEN [known |-> TRUE, chars |-> Utf8Decode(bs)]
    ELSE IF enc = "utf-8-sig"
         THEN [known |-> TRUE,
               chars |-> Utf8Decode(IF Prefix(bs, 3) = BOM_UTF8 THEN From(bs, 4) ELSE bs)]
    ELSE IF enc = "latin-1" THEN [known |-> TRUE, chars |-> bs]
    ELSE IF enc = "ascii"
         THEN [known |-> TRUE,
               chars |-> [i \in 1..Len(bs) |-> IF bs[i] < 128 THEN bs[i] ELSE IllFormed]]
    ELSE [known |-> FALSE, chars |-> <<>>]

\* U+FFFD
REPLACEMENT == 65533

\* bytes.decode(enc, errors="replace"): raises only for an unknown codec
decode_replace(bs, enc) ==
    [raised |-> ~CodecRead(bs, enc).known,
     text   |-> [i \in 1..Len(CodecRead(bs, enc).chars) |->
                   IF CodecRead(bs, enc).chars[i] = IllFormed THEN REPLACEMENT
                   ELSE CodecRead(bs, enc).chars[i]]]

\* the loop over (apparent_encoding, "utf-8", "utf-8-sig", "latin-1") from
\* the k-th encoding on, then the final utf-8 decode
RECURSIVE decode_from(_, _, _)
decode_from(bs, encs, k) ==
    IF k > Len(encs) THEN [raised |-> FALSE, by |-> "utf-8", text |-> decode_replace(bs, "utf-8").text]
    ELSE IF encs[k] \in {"None", ""} \/ decode_replace(bs, encs[k]).raised
         THEN decode_from(bs, encs, k + 1)
    ELSE [raised |-> FALSE, by |-> encs[k], text |-> decode_replace(bs, encs[k]).text]

\* the decoding as stated: the first encoding of the loop that is known and
\* in which the bytes are well-formed gives the text
RECURSIVE decode_from_strict(_, _, _)
decode_from_strict(bs, encs, k) ==
    IF k > Len(encs) THEN [raised |-> FALSE, by |-> "utf-8", text |-> decode_replace(bs, "utf-8").text]
    ELSE IF encs[k] \in {"None", ""} \/ decode_replace(bs, encs[k]).raised
              \/ \E i \in 1..Len(CodecRead(bs, encs[k]).chars) :
                    CodecRead(bs, encs[k]).chars[i] = IllFormed
         THEN decode_from_strict(bs, encs, k + 1)
    ELSE [raised |-> FALSE, by |-> encs[k], text |-> decode_replace(bs, encs[k]).text]

decode_bytes_best_effort(bs, hint) ==
    decode_from(bs, <<hint, "utf-8", "utf-8-sig", "latin-1">>, 1)

\* no call of decode_bytes_best_effort was made yet
NotCalled == [done |-> FALSE, raised |-> FALSE, by |-> "", text |-> <<>>]

(***************************************************************************)
(* Entries.  An entry is the feed parser's dictionary:                     *)
(*   id, guid, link, title, summary, description, content_encoded : text   *)
(*   content : sequence of texts (the "value" of each content block)       *)
(*   published_parsed, updated_parsed, created_parsed : time structs       *)
(* A time struct is [set, valid, day]: set is FALSE for a missing or None  *)
(* field, valid is FALSE for a struct datetime() rejects.                  *)
(***************************************************************************)
NoTime == [set |-> FALSE, valid |-> FALSE, day |-> 0]
BadTime == [set |-> TRUE, valid |-> FALSE, day |-> 0]
Day(d) == [set |-> TRUE, valid |-> TRUE, day |-> d]

\* the result of parse_datetime_from_entry: some is FALSE for None
parse_datetime_from_entry(entry) ==
    LET dt_fields == <<entry.published_parsed, entry.updated_parsed, entry.created_parsed>>
        usable    == {i \in 1..3 : dt_fields[i].set /\ dt_fields[i].valid}
    IN  IF usable = {} THEN [some |-> FALSE, day |-> 0]
        ELSE LET first == CHOOSE i \in usable : \A j \in usable : i <= j
             IN  [some |-> TRUE, day |-> dt_fields[first].day]

within_days_strict(dt, days, clock) == dt.some /\ dt.day >= clock - days

within_days(dt, days, clock) ==
    IF ~dt.some THEN TRUE
    ELSE dt.day >= clock - days

RECURSIVE ReplaceAll(_, _)
\* s.replace(pat, "")
ReplaceAll(s, pat) ==
    IF s = <<>> THEN <<>>
    ELSE IF OccursAt(pat, s, 1) THEN ReplaceAll(From(s, Len(pat) + 1), pat)
    ELSE <<Head(s)>> \o ReplaceAll(Tail(s), pat)

UNKNOWN == <<117, 110, 107, 110, 111, 119, 110>>                    \* "unknown"
WWW_DOT == <<119, 119, 119, 46>>                                    \* "www."
NO_TITLE == <<78, 111, 32, 84, 105, 116, 108, 101>>                 \* "No Title"
NO_LINK == <<78, 111, 32, 76, 105, 110, 107>>                       \* "No Link"
UNKNOWN_DATE == <<85, 110, 107, 110, 111, 119, 110, 32, 68, 97, 116, 101>>
ELLIPSIS == <<46, 46, 46>>                                          \* "..."
TextCap == 20000
DescCap == 300

_get_domain(url) ==
    LET parsed == urlparse(url)
        host   == ReplaceAll(StrLower(parsed.netloc), WWW_DOT)
    IN  IF ~parsed.ok THEN UNKNOWN
        ELSE IF host = <<>> THEN UNKNOWN ELSE host

_entry_text(entry) ==
    LET NonEmpty(x) == x # <<>>
        parts == <<entry.title, entry.summary, entry.description, entry.content_encoded>>
                   \o entry.content
    IN  Prefix(Join(SelectSeq(parts, NonEmpty), <<32>>), TextCap)

\* the rendering of an instant is kept as <<day>>
_format_date(entry) ==
    LET dt == parse_datetime_from_entry(entry)
    IN  IF dt.some THEN <<dt.day>> ELSE UNKNOWN_DATE

\* the md5 digest is kept as the text it digests (collisions aside)
_dedupe_key_link_only(entry) ==
    LET link  == canonicalise_url(entry.link)
        title == StrLower(Strip(entry.title))
    IN  link \o <<124>> \o title

_dedupe_key(entry) ==
    LET guid  == Strip(IF entry.id # <<>> THEN entry.id ELSE entry.guid)
        link  == canonicalise_url(entry.link)
        title == StrLower(Strip(entry.title))
    IN  IF guid # <<>> THEN guid ELSE link \o <<124>> \o title

\* the exception _dedupe_key ends with, "none" when it returns: .strip() is
\* called on the id (or, for a falsy id, the guid) and on the title as found
_dedupe_key_raises(entry) ==
    IF \/ "id" \in entry.bad
       \/ "id" \notin entry.bad /\ entry.id = <<>> /\ "guid" \in entry.bad
       \/ "title" \in entry.bad
    THEN "AttributeError" ELSE "none"

\* the exception _entry_text ends with, "none" when it returns: .get() is
\* called on each element of content, then the parts are joined as strings
_entry_text_raises(entry) ==
    IF "content" \in entry.bad THEN "AttributeError"
    ELSE IF entry.bad \cap {"title", "summary", "description", "content_encoded"} # {}
         THEN "TypeError"
    ELSE "none"

filter_recent_entries_all(entries, days, clock) == entries

filter_recent_entries(entries, days, clock) ==
    LET Recent(e) == within_days(parse_datetime_from_entry(e), days, clock)
    IN  SelectSeq(entries, Recent)

(***************************************************************************)
(* Inputs: the client names, the feed URLs and the entries the feeds serve *)
(***************************************************************************)
C_MattCorby == <<77, 97, 116, 116, 32, 67, 111, 114, 98, 121>>    \* 'Matt Corby'
C_Al == <<65, 108>>    \* 'Al'
C_Art == <<65, 114, 116>>    \* 'Art'
C_El == <<201, 108, 32>>    \* '\xc9l '
C_Enterprises == <<77, 97, 116, 116, 32, 67, 111, 114, 98, 121, 32, 69, 110, 116, 101, 114, 112, 114, 105, 115, 101, 115>>    \* 'Matt Corby Enterprises'
C_ffi == <<64259>>    \* '\ufb03'
C_dotNET == <<46, 78, 69, 84>>    \* '.NET'
FA == <<104, 116, 116, 112, 115, 58, 47, 47, 97, 46, 101, 120, 97, 109, 112, 108, 101, 47, 102, 101, 101, 100>>    \* 'https://a.example/feed'
FB == <<104, 116, 116, 112, 115, 58, 47, 47, 98, 46, 101, 120, 97, 109, 112, 108, 101, 47, 114, 115, 115>>    \* 'https://b.example/rss'

\* the worked example of the scorer: title and summary give the text
\* "Matt Corby announces a new album tour"
E_tour ==
    [n |-> 1,
     bad |-> {},
     \* 'g1'
     id |-> <<103, 49>>,
     guid |-> <<>>,
     \* 'https://www.billboard.com/a'
     link |-> <<104, 116, 116, 112, 115, 58, 47, 47, 119, 119, 119, 46, 98, 105, 108, 108, 98, 111, 97, 114, 100, 46, 99, 111, 109, 47, 97>>,
     \* 'Matt Corby'
     title |-> <<77, 97, 116, 116, 32, 67, 111, 114, 98, 121>>,
     \* 'announces a new album tour'
     summary |-> <<97, 110, 110, 111, 117, 110, 99, 101, 115, 32, 97, 32, 110, 101, 119, 32, 97, 108, 98, 117, 109, 32, 116, 111, 117, 114>>,
     description |-> <<>>,
     content_encoded |-> <<>>,
     content |-> <<>>,
     published_parsed |-> Day(99),
     updated_parsed |-> NoTime,
     created_parsed |-> NoTime]

\* the same story syndicated by another site: same guid, other link and title;
\* published exactly on the cutoff of a 7 day window
E_dup ==
    [n |-> 2,
     bad |-> {},
     id |-> <<>>,
     \* 'g1'
     guid |-> <<103, 49>>,
     \* 'https://pitchfork.com/b?utm_source=rss'
     link |-> <<104, 116, 116, 112, 115, 58, 47, 47, 112, 105, 116, 99, 104, 102, 111, 114, 107, 46, 99, 111, 109, 47, 98, 63, 117, 116, 109, 95, 115, 111, 117, 114, 99, 101, 61, 114, 115, 115>>,
     \* 'Matt Corby tour'
     title |-> <<77, 97, 116, 116, 32, 67, 111, 114, 98, 121, 32, 116, 111, 117, 114>>,
     summary |-> <<>>,
     \* '<p>Matt  Corby</p>'
     description |-> <<60, 112, 62, 77, 97, 116, 116, 32, 32, 67, 111, 114, 98, 121, 60, 47, 112, 62>>,
     content_encoded |-> <<>>,
     content |-> <<>>,
     published_parsed |-> Day(93),
     updated_parsed |-> NoTime,
     created_parsed |-> NoTime]

\* one day older than a 7 day window
E_old ==
    [n |-> 3,
     bad |-> {},
     id |-> <<>>,
     guid |-> <<>>,
     \* 'https://WWW.NME.com/x?utm_source=rss#top'
     link |-> <<104, 116, 116, 112, 115, 58, 47, 47, 87, 87, 87, 46, 78, 77, 69, 46, 99, 111, 109, 47, 120, 63, 117, 116, 109, 95, 115, 111, 117, 114, 99, 101, 61, 114, 115, 115, 35, 116, 111, 112>>,
     \* 'Art show'
     title |-> <<65, 114, 116, 32, 115, 104, 111, 119>>,
     summary |-> <<>>,
     description |-> <<>>,
     content_encoded |-> <<>>,
     content |-> <<>>,
     published_parsed |-> Day(92),
     updated_parsed |-> Day(99),
     created_parsed |-> NoTime]

\* no id and no dates; the same canonical link and title as E_old
E_art ==
    [n |-> 4,
     bad |-> {},
     id |-> <<>>,
     guid |-> <<>>,
     \* 'https://www.nme.com/x'
     link |-> <<104, 116, 116, 112, 115, 58, 47, 47, 119, 119, 119, 46, 110, 109, 101, 46, 99, 111, 109, 47, 120>>,
     \* ' art show '
     title |-> <<32, 97, 114, 116, 32, 115, 104, 111, 119, 32>>,
     summary |-> <<>>,
     description |-> <<>>,
     content_encoded |-> <<>>,
     content |-> <<>>,
     published_parsed |-> NoTime,
     updated_parsed |-> NoTime,
     created_parsed |-> NoTime]

\* names two clients; no title, no link; the first date is unusable
E_two ==
    [n |-> 5,
     bad |-> {},
     \* 'g5'
     id |-> <<103, 53>>,
     guid |-> <<>>,
     link |-> <<>>,
     title |-> <<>>,
     \* "Matt Corby Enterprises announces release: Matt Corby's new single, album, tour; Matt Corby performs concert"
     summary |-> <<77, 97, 116, 116, 32, 67, 111, 114, 98, 121, 32, 69, 110, 116, 101, 114, 112, 114, 105, 115, 101, 115, 32, 97, 110, 110, 111, 117, 110, 99, 101, 115, 32, 114, 101, 108, 101, 97, 115, 101, 58, 32, 77, 97, 116, 116, 32, 67, 111, 114, 98, 121, 39, 115, 32, 110, 101, 119, 32, 115, 105, 110, 103, 108, 101, 44, 32, 97, 108, 98, 117, 109, 44, 32, 116, 111, 117, 114, 59, 32, 77, 97, 116, 116, 32, 67, 111, 114, 98, 121, 32, 112, 101, 114, 102, 111, 114, 109, 115, 32, 99, 111, 110, 99, 101, 114, 116>>,
     description |-> <<>>,
     content_encoded |-> <<>>,
     content |-> <<>>,
     published_parsed |-> BadTime,
     updated_parsed |-> Day(99),
     created_parsed |-> NoTime]

\* ties with E_tour on score and domain
E_tie ==
    [n |-> 6,
     bad |-> {},
     \* 'g6'
     id |-> <<103, 54>>,
     guid |-> <<>>,
     \* 'https://www.billboard.com/c'
     link |-> <<104, 116, 116, 112, 115, 58, 47, 47, 119, 119, 119, 46, 98, 105, 108, 108, 98, 111, 97, 114, 100, 46, 99, 111, 109, 47, 99>>,
     \* 'Art'
     title |-> <<65, 114, 116>>,
     summary |-> <<>>,
     description |-> <<>>,
     content_encoded |-> <<>>,
     content |-> <<<<97, 110, 110, 111, 117, 110, 99, 101, 115, 32, 97, 32, 110, 101, 119, 32, 97, 108, 98, 117, 109, 32, 116, 111, 117, 114>>>>,
     published_parsed |-> Day(99),
     updated_parsed |-> NoTime,
     created_parsed |-> NoTime]

\* ties with E_tour and E_tie on score, from another domain; names the short
\* clients Al and El
E_tie2 ==
    [n |-> 7,
     bad |-> {},
     \* 'g7'
     id |-> <<103, 55>>,
     guid |-> <<>>,
     \* 'https://aaa.com/z'
     link |-> <<104, 116, 116, 112, 115, 58, 47, 47, 97, 97, 97, 46, 99, 111, 109, 47, 122>>,
     \* 'Al Art'
     title |-> <<65, 108, 32, 65, 114, 116>>,
     \* 'el announces a new album tour'
     summary |-> <<101, 108, 32, 97, 110, 110, 111, 117, 110, 99, 101, 115, 32, 97, 32, 110, 101, 119, 32, 97, 108, 98, 117, 109, 32, 116, 111, 117, 114>>,
     description |-> <<>>,
     content_encoded |-> <<>>,
     content |-> <<>>,
     published_parsed |-> NoTime,
     updated_parsed |-> NoTime,
     created_parsed |-> Day(100)]

\* carries the id of E_tour and no text
E_blank ==
    [n |-> 8,
     bad |-> {},
     \* 'g1'
     id |-> <<103, 49>>,
     guid |-> <<>>,
     \* 'https://pitchfork.com/c'
     link |-> <<104, 116, 116, 112, 115, 58, 47, 47, 112, 105, 116, 99, 104, 102, 111, 114, 107, 46, 99, 111, 109, 47, 99>>,
     title |-> <<>>,
     summary |-> <<>>,
     description |-> <<>>,
     content_encoded |-> <<>>,
     content |-> <<>>,
     published_parsed |-> Day(99),
     updated_parsed |-> NoTime,
     created_parsed |-> NoTime]


Catalogue == <<E_tour, E_dup, E_old, E_art, E_two, E_tie, E_tie2, E_blank>>

\* an entry of a caller's fetch whose id is the number 5
M_id ==
    [n |-> 9,
     bad |-> {"id"},
     id |-> <<>>,
     guid |-> <<>>,
     link |-> <<>>,
     \* 'Matt Corby'
     title |-> <<77, 97, 116, 116, 32, 67, 111, 114, 98, 121>>,
     summary |-> <<>>,
     description |-> <<>>,
     content_encoded |-> <<>>,
     content |-> <<>>,
     published_parsed |-> NoTime,
     updated_parsed |-> NoTime,
     created_parsed |-> NoTime]

\* an entry with the id 'g1' whose summary is a list
M_text ==
    [n |-> 10,
     bad |-> {"summary"},
     id |-> <<103, 49>>,
     guid |-> <<>>,
     link |-> <<>>,
     \* 'Matt Corby'
     title |-> <<77, 97, 116, 116, 32, 67, 111, 114, 98, 121>>,
     summary |-> <<>>,
     description |-> <<>>,
     content_encoded |-> <<>>,
     content |-> <<>>,
     published_parsed |-> NoTime,
     updated_parsed |-> NoTime,
     created_parsed |-> NoTime]

\* an entry whose content is a string where a list of dicts is expected
M_content ==
    [n |-> 11,
     bad |-> {"content"},
     id |-> <<103, 49, 49>>,
     guid |-> <<>>,
     link |-> <<>>,
     \* 'Matt Corby'
     title |-> <<77, 97, 116, 116, 32, 67, 111, 114, 98, 121>>,
     summary |-> <<>>,
     description |-> <<>>,
     content_encoded |-> <<>>,
     content |-> <<>>,
     published_parsed |-> NoTime,
     updated_parsed |-> NoTime,
     created_parsed |-> NoTime]

\* the entries only a caller's fetch can return
Malformed == <<M_id, M_text, M_content>>

\* the name in lower case
X_lower ==
    [n |-> 21,
     bad |-> {},
     \* 'x21'
     id |-> <<120, 50, 49>>,
     guid |-> <<>>,
     link |-> <<>>,
     \* 'matt corby'
     title |-> <<109, 97, 116, 116, 32, 99, 111, 114, 98, 121>>,
     \* ''
     summary |-> <<>>,
     description |-> <<>>,
     content_encoded |-> <<>>,
     content |-> <<>>,
     published_parsed |-> NoTime,
     updated_parsed |-> NoTime,
     created_parsed |-> NoTime]

\* the name in upper case with a possessive 's
X_poss ==
    [n |-> 22,
     bad |-> {},
     \* 'x22'
     id |-> <<120, 50, 50>>,
     guid |-> <<>>,
     link |-> <<>>,
     \* "MATT CORBY'S"
     title |-> <<77, 65, 84, 84, 32, 67, 79, 82, 66, 89, 39, 83>>,
     \* ''
     summary |-> <<>>,
     description |-> <<>>,
     content_encoded |-> <<>>,
     content |-> <<>>,
     published_parsed |-> NoTime,
     updated_parsed |-> NoTime,
     created_parsed |-> NoTime]

\* the handle of the name, its space stripped
X_at ==
    [n |-> 23,
     bad |-> {},
     \* 'x23'
     id |-> <<120, 50, 51>>,
     guid |-> <<>>,
     link |-> <<>>,
     \* '@mattcorby'
     title |-> <<64, 109, 97, 116, 116, 99, 111, 114, 98, 121>>,
     \* ''
     summary |-> <<>>,
     description |-> <<>>,
     content_encoded |-> <<>>,
     content |-> <<>>,
     published_parsed |-> NoTime,
     updated_parsed |-> NoTime,
     created_parsed |-> NoTime]

\* the hashtag of the name, its space stripped
X_hash ==
    [n |-> 24,
     bad |-> {},
     \* 'x24'
     id |-> <<120, 50, 52>>,
     guid |-> <<>>,
     link |-> <<>>,
     \* '#mattcorby'
     title |-> <<35, 109, 97, 116, 116, 99, 111, 114, 98, 121>>,
     \* ''
     summary |-> <<>>,
     description |-> <<>>,
     content_encoded |-> <<>>,
     content |-> <<>>,
     published_parsed |-> NoTime,
     updated_parsed |-> NoTime,
     created_parsed |-> NoTime]

\* a letter whose compatibility form is a capital: U+210C, then U+00C9 and U+FB03
X_frak ==
    [n |-> 25,
     bad |-> {},
     \* 'x25'
     id |-> <<120, 50, 53>>,
     guid |-> <<>>,
     link |-> <<>>,
     \* 'ℌ É ﬃ'
     title |-> <<8460, 32, 201, 32, 64259>>,
     \* ''
     summary |-> <<>>,
     description |-> <<>>,
     content_encoded |-> <<>>,
     content |-> <<>>,
     published_parsed |-> NoTime,
     updated_parsed |-> NoTime,
     created_parsed |-> NoTime]

\* an accented capital and a ligature
X_accent ==
    [n |-> 26,
     bad |-> {},
     \* 'x26'
     id |-> <<120, 50, 54>>,
     guid |-> <<>>,
     link |-> <<>>,
     \* 'É ﬃ'
     title |-> <<201, 32, 64259>>,
     \* ''
     summary |-> <<>>,
     description |-> <<>>,
     content_encoded |-> <<>>,
     content |-> <<>>,
     published_parsed |-> NoTime,
     updated_parsed |-> NoTime,
     created_parsed |-> NoTime]

\* the entries the examples of matching, normalisation and scoring are about
Examples == <<X_lower, X_poss, X_at, X_hash, X_frak, X_accent>>

\* the name twice, one keyword three times
S_repeat ==
    [n |-> 31,
     bad |-> {},
     \* 'x31'
     id |-> <<120, 51, 49>>,
     guid |-> <<>>,
     link |-> <<>>,
     \* ''
     title |-> <<>>,
     \* 'art art new new news'
     summary |-> <<97, 114, 116, 32, 97, 114, 116, 32, 110, 101, 119, 32, 110, 101, 119, 32, 110, 101, 119, 115>>,
     description |-> <<>>,
     content_encoded |-> <<>>,
     content |-> <<>>,
     published_parsed |-> NoTime,
     updated_parsed |-> NoTime,
     created_parsed |-> NoTime]

\* the name after the first 200 characters
S_late ==
    [n |-> 32,
     bad |-> {},
     \* 'x32'
     id |-> <<120, 51, 50>>,
     guid |-> <<>>,
     link |-> <<>>,
     \* ''
     title |-> <<>>,
     \* 'x x x x x x x x x x x x x x x x x x x x x x x x x x x x x...'
     summary |-> <<120, 32, 120, 32, 120, 32, 120, 32, 120, 32, 120, 32, 120, 32, 120, 32, 120, 32, 120, 32, 120, 32, 120, 32, 120, 32, 120, 32, 120, 32, 120, 32, 120, 32, 120, 32, 120, 32, 120, 32, 120, 32, 120, 32, 120, 32, 120, 32, 120, 32, 120, 32, 120, 32, 120, 32, 120, 32, 120, 32, 120, 32, 120, 32, 120, 32, 120, 32, 120, 32, 120, 32, 120, 32, 120, 32, 120, 32, 120, 32, 120, 32, 120, 32, 120, 32, 120, 32, 120, 32, 120, 32, 120, 32, 120, 32, 120, 32, 120, 32, 120, 32, 120, 32, 120, 32, 120, 32, 120, 32, 120, 32, 120, 32, 120, 32, 120, 32, 120, 32, 120, 32, 120, 32, 120, 32, 120, 32, 120, 32, 120, 32, 120, 32, 120, 32, 120, 32, 120, 32, 120, 32, 120, 32, 120, 32, 120, 32, 120, 32, 120, 32, 120, 32, 120, 32, 120, 32, 120, 32, 120, 32, 120, 32, 120, 32, 120, 32, 120, 32, 120, 32, 120, 32, 120, 32, 120, 32, 120, 32, 120, 32, 120, 32, 120, 32, 120, 32, 120, 32, 120, 32, 120, 32, 120, 32, 120, 32, 120, 32, 120, 32, 97, 114, 116, 32, 116, 111, 117, 114>>,
     description |-> <<>>,
     content_encoded |-> <<>>,
     content |-> <<>>,
     published_parsed |-> NoTime,
     updated_parsed |-> NoTime,
     created_parsed |-> NoTime]

\* the name across the 200th character
S_straddle ==
    [n |-> 33,
     bad |-> {},
     \* 'x33'
     id |-> <<120, 51, 51>>,
     guid |-> <<>>,
     link |-> <<>>,
     \* ''
     title |-> <<>>,
     \* 'x x x x x x x x x x x x x x x x x x x x x x x x x x x x x...'
     summary |-> <<120, 32, 120, 32, 120, 32, 120, 32, 120, 32, 120, 32, 120, 32, 120, 32, 120, 32, 120, 32, 120, 32, 120, 32, 120, 32, 120, 32, 120, 32, 120, 32, 120, 32, 120, 32, 120, 32, 120, 32, 120, 32, 120, 32, 120, 32, 120, 32, 120, 32, 120, 32, 120, 32, 120, 32, 120, 32, 120, 32, 120, 32, 120, 32, 120, 32, 120, 32, 120, 32, 120, 32, 120, 32, 120, 32, 120, 32, 120, 32, 120, 32, 120, 32, 120, 32, 120, 32, 120, 32, 120, 32, 120, 32, 120, 32, 120, 32, 120, 32, 120, 32, 120, 32, 120, 32, 120, 32, 120, 32, 120, 32, 120, 32, 120, 32, 120, 32, 120, 32, 120, 32, 120, 32, 120, 32, 120, 32, 120, 32, 120, 32, 120, 32, 120, 32, 120, 32, 120, 32, 120, 32, 120, 32, 120, 32, 120, 32, 120, 32, 120, 32, 120, 32, 120, 32, 120, 32, 120, 32, 120, 32, 120, 32, 120, 32, 120, 32, 120, 32, 120, 32, 120, 32, 120, 32, 120, 32, 120, 32, 120, 32, 120, 32, 120, 32, 120, 32, 120, 32, 120, 32, 120, 32, 120, 32, 120, 32, 97, 114, 116>>,
     description |-> <<>>,
     content_encoded |-> <<>>,
     content |-> <<>>,
     published_parsed |-> NoTime,
     updated_parsed |-> NoTime,
     created_parsed |-> NoTime]

\* the name ending at the 200th character
S_edge ==
    [n |-> 34,
     bad |-> {},
     \* 'x34'
     id |-> <<120, 51, 52>>,
     guid |-> <<>>,
     link |-> <<>>,
     \* ''
     title |-> <<>>,
     \* 'x x x x x x x x x x x x x x x x x x x x x x x x x x x x x...'
     summary |-> <<120, 32, 120, 32, 120, 32, 120, 32, 120, 32, 120, 32, 120, 32, 120, 32, 120, 32, 120, 32, 120, 32, 120, 32, 120, 32, 120, 32, 120, 32, 120, 32, 120, 32, 120, 32, 120, 32, 120, 32, 120, 32, 120, 32, 120, 32, 120, 32, 120, 32, 120, 32, 120, 32, 120, 32, 120, 32, 120, 32, 120, 32, 120, 32, 120, 32, 120, 32, 120, 32, 120, 32, 120, 32, 120, 32, 120, 32, 120, 32, 120, 32, 120, 32, 120, 32, 120, 32, 120, 32, 120, 32, 120, 32, 120, 32, 120, 32, 120, 32, 120, 32, 120, 32, 120, 32, 120, 32, 120, 32, 120, 32, 120, 32, 120, 32, 120, 32, 120, 32, 120, 32, 120, 32, 120, 32, 120, 32, 120, 32, 120, 32, 120, 32, 120, 32, 120, 32, 120, 32, 120, 32, 120, 32, 120, 32, 120, 32, 120, 32, 120, 32, 120, 32, 120, 32, 120, 32, 120, 32, 120, 32, 120, 32, 120, 32, 120, 32, 120, 32, 120, 32, 120, 32, 120, 32, 120, 32, 120, 32, 120, 32, 120, 32, 120, 32, 120, 32, 120, 32, 120, 32, 120, 32, 120, 32, 32, 97, 114, 116>>,
     description |-> <<>>,
     content_encoded |-> <<>>,
     content |-> <<>>,
     published_parsed |-> NoTime,
     updated_parsed |-> NoTime,
     created_parsed |-> NoTime]

\* more than the cap allows
S_cap ==
    [n |-> 35,
     bad |-> {},
     \* 'x35'
     id |-> <<120, 51, 53>>,
     guid |-> <<>>,
     link |-> <<>>,
     \* 'Art'
     title |-> <<65, 114, 116>>,
     \* 'art art art art album single tour concert'
     summary |-> <<97, 114, 116, 32, 97, 114, 116, 32, 97, 114, 116, 32, 97, 114, 116, 32, 97, 108, 98, 117, 109, 32, 115, 105, 110, 103, 108, 101, 32, 116, 111, 117, 114, 32, 99, 111, 110, 99, 101, 114, 116>>,
     description |-> <<>>,
     content_encoded |-> <<>>,
     content |-> <<>>,
     published_parsed |-> NoTime,
     updated_parsed |-> NoTime,
     created_parsed |-> NoTime]

\* the entries the examples of scoring are about
Scored == <<S_repeat, S_late, S_straddle, S_edge, S_cap>>

\* the name .NET behind a letter
A_inside ==
    [n |-> 41,
     bad |-> {},
     \* 'x41'
     id |-> <<120, 52, 49>>,
     guid |-> <<>>,
     link |-> <<>>,
     \* 'asp.net rocks'
     title |-> <<97, 115, 112, 46, 110, 101, 116, 32, 114, 111, 99, 107, 115>>,
     \* ''
     summary |-> <<>>,
     description |-> <<>>,
     content_encoded |-> <<>>,
     content |-> <<>>,
     published_parsed |-> NoTime,
     updated_parsed |-> NoTime,
     created_parsed |-> NoTime]

\* the name .NET between blanks
A_free ==
    [n |-> 42,
     bad |-> {},
     \* 'x42'
     id |-> <<120, 52, 50>>,
     guid |-> <<>>,
     link |-> <<>>,
     \* 'use .net now'
     title |-> <<117, 115, 101, 32, 46, 110, 101, 116, 32, 110, 111, 119>>,
     \* ''
     summary |-> <<>>,
     description |-> <<>>,
     content_encoded |-> <<>>,
     content |-> <<>>,
     published_parsed |-> NoTime,
     updated_parsed |-> NoTime,
     created_parsed |-> NoTime]

\* the name Art before a letter
A_artisan ==
    [n |-> 43,
     bad |-> {},
     \* 'x43'
     id |-> <<120, 52, 51>>,
     guid |-> <<>>,
     link |-> <<>>,
     \* 'Artisan'
     title |-> <<65, 114, 116, 105, 115, 97, 110>>,
     \* ''
     summary |-> <<>>,
     description |-> <<>>,
     content_encoded |-> <<>>,
     content |-> <<>>,
     published_parsed |-> NoTime,
     updated_parsed |-> NoTime,
     created_parsed |-> NoTime]

\* the name Art behind a letter, behind an underscore, before a digit
A_start ==
    [n |-> 44,
     bad |-> {},
     \* 'x44'
     id |-> <<120, 52, 52>>,
     guid |-> <<>>,
     link |-> <<>>,
     \* 'start _art art1'
     title |-> <<115, 116, 97, 114, 116, 32, 95, 97, 114, 116, 32, 97, 114, 116, 49>>,
     \* ''
     summary |-> <<>>,
     description |-> <<>>,
     content_encoded |-> <<>>,
     content |-> <<>>,
     published_parsed |-> NoTime,
     updated_parsed |-> NoTime,
     created_parsed |-> NoTime]

\* the name Art between punctuation
A_punct ==
    [n |-> 45,
     bad |-> {},
     \* 'x45'
     id |-> <<120, 52, 53>>,
     guid |-> <<>>,
     link |-> <<>>,
     \* '(art)'
     title |-> <<40, 97, 114, 116, 41>>,
     \* ''
     summary |-> <<>>,
     description |-> <<>>,
     content_encoded |-> <<>>,
     content |-> <<>>,
     published_parsed |-> NoTime,
     updated_parsed |-> NoTime,
     created_parsed |-> NoTime]

\* the name Art as the whole text
A_alone ==
    [n |-> 46,
     bad |-> {},
     \* 'x46'
     id |-> <<120, 52, 54>>,
     guid |-> <<>>,
     link |-> <<>>,
     \* 'Art'
     title |-> <<65, 114, 116>>,
     \* ''
     summary |-> <<>>,
     description |-> <<>>,
     content_encoded |-> <<>>,
     content |-> <<>>,
     published_parsed |-> NoTime,
     updated_parsed |-> NoTime,
     created_parsed |-> NoTime]

\* the entries the examples of boundary anchoring are about
Anchored == <<A_inside, A_free, A_artisan, A_start, A_punct, A_alone>>

\* an entry with an id, a guid, a link and a title, no other text and no date
LinkEntry(n, id, guid, link, title) ==
    [n |-> n, bad |-> {}, id |-> id, guid |-> guid, link |-> link, title |-> title,
     summary |-> <<>>, description |-> <<>>, content_encoded |-> <<>>, content |-> <<>>,
     published_parsed |-> NoTime, updated_parsed |-> NoTime, created_parsed |-> NoTime]

\* the entries the examples of keys, canonical links and domains are about
Keyed ==
    << \* a blank id beside a guid:
       \* id '  ', guid 'g7', link 'https://a.example/1', title 'Art one'
       LinkEntry(51, <<32, 32>>, <<103, 55>>,
                 <<104, 116, 116, 112, 115, 58, 47, 47, 97, 46, 101, 120, 97, 109, 112, 108, 101, 47, 49>>,
                 <<65, 114, 116, 32, 111, 110, 101>>),
       \* the same blank id and guid under another link and title:
       \* id '  ', guid 'g7', link 'https://b.example/2', title 'Art two'
       LinkEntry(52, <<32, 32>>, <<103, 55>>,
                 <<104, 116, 116, 112, 115, 58, 47, 47, 98, 46, 101, 120, 97, 109, 112, 108, 101, 47, 50>>,
                 <<65, 114, 116, 32, 116, 119, 111>>),
       \* an id with blanks around it:
       \* id ' k1 ', guid '', link 'https://a.example/3', title 'Art three'
       LinkEntry(53, <<32, 107, 49, 32>>, <<>>,
                 <<104, 116, 116, 112, 115, 58, 47, 47, 97, 46, 101, 120, 97, 109, 112, 108, 101, 47, 51>>,
                 <<65, 114, 116, 32, 116, 104, 114, 101, 101>>),
       \* the same id, other link and title:
       \* id 'k1', guid '', link 'https://b.example/4', title 'Art four'
       LinkEntry(54, <<107, 49>>, <<>>,
                 <<104, 116, 116, 112, 115, 58, 47, 47, 98, 46, 101, 120, 97, 109, 112, 108, 101, 47, 52>>,
                 <<65, 114, 116, 32, 102, 111, 117, 114>>),
       \* a guid and no id, link and title as before:
       \* id '', guid 'k2', link 'https://b.example/4', title 'Art four'
       LinkEntry(55, <<>>, <<107, 50>>,
                 <<104, 116, 116, 112, 115, 58, 47, 47, 98, 46, 101, 120, 97, 109, 112, 108, 101, 47, 52>>,
                 <<65, 114, 116, 32, 102, 111, 117, 114>>),
       \* no id: capitals in scheme and host, a tracking parameter, a fragment:
       \* id '', guid '', link 'HTTPS://WWW.Example.COM/a?utm_source=x&b=1#frag', title ' Art  News '
       LinkEntry(56, <<>>, <<>>,
                 <<72, 84, 84, 80, 83, 58, 47, 47, 87, 87, 87, 46, 69, 120, 97, 109, 112, 108, 101, 46, 67, 79, 77, 47, 97, 63, 117, 116, 109, 95, 115, 111, 117, 114, 99, 101, 61, 120, 38, 98, 61, 49, 35, 102, 114, 97, 103>>,
                 <<32, 65, 114, 116, 32, 32, 78, 101, 119, 115, 32>>),
       \* the same link in canonical form, the same title trimmed and lower-cased:
       \* id '', guid '', link 'https://www.example.com/a?b=1', title 'art  news'
       LinkEntry(57, <<>>, <<>>,
                 <<104, 116, 116, 112, 115, 58, 47, 47, 119, 119, 119, 46, 101, 120, 97, 109, 112, 108, 101, 46, 99, 111, 109, 47, 97, 63, 98, 61, 49>>,
                 <<97, 114, 116, 32, 32, 110, 101, 119, 115>>),
       \* the same again with the parameter utm_id:
       \* id '', guid '', link 'https://www.example.com/a?b=1&utm_id=7', title 'art  news'
       LinkEntry(58, <<>>, <<>>,
                 <<104, 116, 116, 112, 115, 58, 47, 47, 119, 119, 119, 46, 101, 120, 97, 109, 112, 108, 101, 46, 99, 111, 109, 47, 97, 63, 98, 61, 49, 38, 117, 116, 109, 95, 105, 100, 61, 55>>,
                 <<97, 114, 116, 32, 32, 110, 101, 119, 115>>),
       \* a host with www. behind its first label:
       \* id '', guid '', link 'https://blog.www.example.com/x', title 'Art blog'
       LinkEntry(59, <<>>, <<>>,
                 <<104, 116, 116, 112, 115, 58, 47, 47, 98, 108, 111, 103, 46, 119, 119, 119, 46, 101, 120, 97, 109, 112, 108, 101, 46, 99, 111, 109, 47, 120>>,
                 <<65, 114, 116, 32, 98, 108, 111, 103>>),
       \* the id k1 again, with a text that names no client:
       \* id 'k1', guid '', link 'https://c.example/5', title 'Artisan'
       LinkEntry(60, <<107, 49>>, <<>>,
                 <<104, 116, 116, 112, 115, 58, 47, 47, 99, 46, 101, 120, 97, 109, 112, 108, 101, 47, 53>>,
                 <<65, 114, 116, 105, 115, 97, 110>>),
       \* the id k1 again, with no text at all:
       \* id 'k1', guid '', link 'https://c.example/6', title ''
       LinkEntry(61, <<107, 49>>, <<>>,
                 <<104, 116, 116, 112, 115, 58, 47, 47, 99, 46, 101, 120, 97, 109, 112, 108, 101, 47, 54>>,
                 <<>>) >>

\* the longest feed document
MaxEntries == 2

\* len consecutive entries of the catalogue from the k-th on, cyclically
Window(k, len) ==
    [i \in 1..len |-> Catalogue[((k + i - 2) % Len(Catalogue)) + 1]]

Docs == {<<>>} \cup {Window(k, len) : k \in 1..Len(Catalogue), len \in 1..MaxEntries}

\* what a URL serves: a feed document, or a page that is not feed XML
Pages == {[xml |-> TRUE, entries |-> d] : d \in Docs}
           \cup {[xml |-> FALSE, entries |-> <<>>]}

ClientLists == { <<C_MattCorby, <<>>, C_Al, C_Art, C_El, C_Enterprises>> }

\* clients whose name begins with a character that is no word character
AnchorClientLists == { <<C_dotNET, C_Art>> }

FeedLists == { <<FA, FB>>, <<FB, <<>>, FB>> }

WorkerChoices == {0, 1, 2}

LookbackChoices == {7}

Clocks == {100}

\* the exceptions one HTTP attempt can end with
ExcKinds == {"Timeout", "HTTPError"}

(***************************************************************************)
(* The engine (src/app.py 294-423)                                         *)
(***************************************************************************)
VARIABLES
    clients,          \* self.clients
    client_patterns,  \* self.client_patterns: <<name, variants>> in dict order
    rss_feeds,        \* self.rss_feeds
    max_workers,      \* self.max_workers
    days,             \* the lookback argument of the scan
    fetch_given,      \* TRUE when the caller passes its own fetch
    now,              \* the clock
    web,              \* what each feed URL serves
    pc,               \* "idle", "collect", "entries", "done", "raised"
    task,             \* the futures of the scan, in submission order
    taken,            \* the futures as_completed has yielded
    completed,        \* the progress counter
    feed_url,         \* the URL of the future being processed
    cur,              \* the recent entries of that future still to be looped over
    seen,             \* the dedupe keys seen in this scan
    all_matches,      \* the matches appended so far
    result,           \* the list the scan returned
    looked,           \* <<future, entry number>> of each entry the loop body ran for
    scans,            \* how many times the caller scans with the monitor
    yielded,          \* the futures in the order as_completed has yielded them
    past,             \* for each scan that returned and was followed by another:
                      \* its list, its order and what its futures held
    data,             \* the bytes handed to decode_bytes_best_effort
    apparent_encoding,\* the encoding hint handed to it
    decoded           \* what the call ended with

vars == <<clients, client_patterns, rss_feeds, max_workers, days, fetch_given, now,
          web, pc, task, taken, completed, feed_url, cur, seen, all_matches,
          result, looked, scans, yielded, past, data, apparent_encoding, decoded>>

config == <<clients, client_patterns, rss_feeds, max_workers, days, fetch_given, now, web,
            scans, data, apparent_encoding, decoded>>

NonEmpty(x) == x # <<>>

Range(f) == {f[i] : i \in DOMAIN f}

RECURSIVE _compile_client_patterns(_)
\* a later duplicate of a name overwrites its own dictionary slot
_compile_client_patterns(names) ==
    IF names = <<>> THEN <<>>
    ELSE LET rest == _compile_client_patterns(SubSeq(names, 1, Len(names) - 1))
             name == names[Len(names)]
             variants == _name_variants(name)
         IN  IF variants = <<>> \/ \E k \in 1..Len(rest) : rest[k][1] = name
             THEN rest
             ELSE Append(rest, <<name, variants>>)

_match_clients_in_text(patterns, text) ==
    LET n == _normalise_text(text)
        Hit(cp) == Search(cp[2], n)
        hits == SelectSeq(patterns, Hit)
    IN  [k \in 1..Len(hits) |-> hits[k][1]]

\* the fields of the Match of one client that do not depend on the feed
\* (lines 394-419)
MatchOf(entry, client, key, text, title, description, link, published, domain) ==
    [client |-> client,
     title |-> title,
     description |-> Prefix(description, DescCap)
                       \o (IF Len(description) > DescCap THEN ELLIPSIS ELSE <<>>),
     link |-> link,
     published |-> published,
     domain |-> domain,
     relevance_score |-> _calculate_relevance_score(text, client, title),
     key |-> key, n |-> entry.n]

\* lines 392-409 once the key, the text and the matched clients are known
MatchesOf(entry, key, text, matched_clients, title, description, link) ==
    [key |-> key,
     blank |-> Strip(text) = <<>>,
     matches |-> [k \in 1..Len(matched_clients) |->
                    MatchOf(entry, matched_clients[k], key, text, title, description,
                            link, _format_date(entry), _get_domain(link))]]

TextFacts(patterns, entry, text) ==
    MatchesOf(entry, _dedupe_key(entry), text, _match_clients_in_text(patterns, text),
              IF entry.title # <<>> THEN entry.title ELSE NO_TITLE,
              _clean_html(IF entry.description # <<>> THEN entry.description
                          ELSE entry.summary),
              IF entry.link # <<>> THEN entry.link ELSE NO_LINK)

\* what the loop body derives from the entry alone (lines 388-409): its
\* dedupe key, whether its text is blank, and for each matched client, in
\* dictionary order, the fields of the Match that do not depend on the feed
EntryFacts(patterns, entry) == TextFacts(patterns, entry, _entry_text(entry))

\* EntryFacts over the entries of the catalogue, evaluated once for each
\* compiled client list
PatternLists == {_compile_client_patterns(SelectSeq(names, NonEmpty)) : names \in ClientLists}

FactsTable ==
    {<<patterns, e.n, EntryFacts(patterns, e)>> :
        patterns \in PatternLists, e \in Range(Catalogue) \cup Range(Malformed) \cup Range(Examples)
                                      \cup Range(Scored) \cup Range(Keyed)}
      \cup {<<patterns, e.n, EntryFacts(patterns, e)>> :
               patterns \in {_compile_client_patterns(names) : names \in AnchorClientLists},
               e \in Range(Anchored)}

Facts(patterns, entry) ==
    (CHOOSE row \in FactsTable : row[1] = patterns /\ row[2] = entry.n)[3]

\* a Match of the entry as found in the feed url by the future ti (lines 410-420)
Stamp(m, clock, url, ti) ==
    [client |-> m.client, title |-> m.title,
     description |-> m.description, link |-> m.link,
     published |-> m.published, source |-> url, domain |-> m.domain,
     found_date |-> clock, relevance_score |-> m.relevance_score,
     key |-> m.key, task |-> ti, n |-> m.n]

Stamped_first_only(ms, clock, url, ti) ==
    IF ms = <<>> THEN <<>> ELSE <<Stamp(ms[1], clock, url, ti)>>

Stamped(ms, clock, url, ti) == [k \in 1..Len(ms) |-> Stamp(ms[k], clock, url, ti)]

\* lines 388-420 for an entry whose key is facts.key; key_exc and text_exc
\* are what _dedupe_key and _entry_text raise for it, and an exception ends
\* the loop where it is raised: nothing in the loop body catches it
Record_key_after_match(st, facts, n, key_exc, text_exc, clock, url, ti) ==
    IF key_exc # "none"
    THEN [st EXCEPT !.looked = @ \cup {<<ti, n>>}, !.raised = key_exc]
    ELSE IF facts.key \in st.seen
    THEN [st EXCEPT !.looked = @ \cup {<<ti, n>>}]
    ELSE IF text_exc # "none" \/ facts.blank \/ facts.matches = <<>>
    THEN [st EXCEPT !.looked = @ \cup {<<ti, n>>}, !.raised = text_exc]
    ELSE [seen |-> st.seen \cup {facts.key},
          all_matches |-> st.all_matches \o Stamped(facts.matches, clock, url, ti),
          looked |-> st.looked \cup {<<ti, n>>},
          raised |-> text_exc]

Record(st, facts, n, key_exc, text_exc, clock, url, ti) ==
    IF key_exc # "none"
    THEN [st EXCEPT !.looked = @ \cup {<<ti, n>>}, !.raised = key_exc]
    ELSE IF facts.key \in st.seen
    THEN [st EXCEPT !.looked = @ \cup {<<ti, n>>}]
    ELSE [seen |-> st.seen \cup {facts.key},
          all_matches |-> IF text_exc # "none" \/ facts.blank THEN st.all_matches
                          ELSE st.all_matches \o Stamped(facts.matches, clock, url, ti),
          looked |-> st.looked \cup {<<ti, n>>},
          raised |-> text_exc]

LoopBody_no_dedupe(patterns, clock, st, entry, url, ti) ==
    [Record([st EXCEPT !.seen = {}], Facts(patterns, entry), entry.n,
            _dedupe_key_raises(entry), _entry_text_raises(entry), clock, url, ti)
        EXCEPT !.seen = @ \cup st.seen]

\* the body of the loop over the recent entries of one future (lines 388-420);
\* st is [seen, all_matches, looked, raised], ti the future, url its feed
LoopBody(patterns, clock, st, entry, url, ti) ==
    Record(st, Facts(patterns, entry), entry.n,
           _dedupe_key_raises(entry), _entry_text_raises(entry), clock, url, ti)

\* the sort key (-relevance_score, domain, title), compared as tuples
KeyLessScoreOnly(a, b) == a.relevance_score > b.relevance_score

KeyLess(a, b) ==
    \/ a.relevance_score > b.relevance_score
    \/ /\ a.relevance_score = b.relevance_score
       /\ \/ StrLess(a.domain, b.domain)
          \/ a.domain = b.domain /\ StrLess(a.title, b.title)

\* put m behind every element whose key is not greater
Insert(sorted, m) ==
    LET later == {k \in 1..Len(sorted) : KeyLess(m, sorted[k])}
        at    == IF later = {} THEN Len(sorted) + 1
                 ELSE CHOOSE k \in later : \A j \in later : k <= j
    IN  SubSeq(sorted, 1, at - 1) \o <<m>> \o SubSeq(sorted, at, Len(sorted))

RECURSIVE Sort(_)
\* list.sort(key=...): the stable sort
Sort(ms) ==
    IF ms = <<>> THEN <<>>
    ELSE Insert(Sort(SubSeq(ms, 1, Len(ms) - 1)), ms[Len(ms)])

\* simple_retry(max_attempts=3, delay=2) as applied to robust_get
MaxAttempts == 3
Delay == 2

\* what the wrapper does with the outcome of the call made in loop round
\* attempt (0-based): "return" it, "raise" it, or "sleep" and go round again
simple_retry_no_raise(attempt, outcome) ==
    IF outcome = "ok" THEN "return" ELSE "sleep"

simple_retry(attempt, outcome) ==
    IF outcome = "ok" THEN "return"
    ELSE IF attempt = MaxAttempts - 1 THEN "raise"
    ELSE "sleep"

\* parse_feed_safe after robust_get returned: the head check, decoding and
\* parsing give the entries of a feed document and nothing for another page
ParsedEntries(page) == IF page.xml THEN page.entries ELSE <<>>

\* a future as submitted: invoked counts the calls of its function, by names
\* the function called and url its argument
NewTask ==
    [st |-> "pending", attempt |-> 0, calls |-> 0, waited |-> 0, last |-> "none",
     caught |-> "none", failed |-> FALSE, entries |-> <<>>,
     invoked |-> 0, by |-> "none", url |-> <<>>]

Init ==
    /\ \E names \in ClientLists :
         /\ clients = SelectSeq(names, NonEmpty)
         /\ client_patterns = _compile_client_patterns(SelectSeq(names, NonEmpty))
    /\ \E feeds \in FeedLists : rss_feeds = SelectSeq(feeds, NonEmpty)
    /\ max_workers \in WorkerChoices
    /\ days \in LookbackChoices
    /\ fetch_given \in BOOLEAN
    /\ now \in Clocks
    /\ web \in [Range(rss_feeds) -> Pages]
    /\ pc = "idle"
    /\ task = <<>>
    /\ taken = {}
    /\ completed = 0
    /\ feed_url = <<>>
    /\ cur = <<>>
    /\ seen = {}
    /\ all_matches = <<>>
    /\ result = <<>>
    /\ looked = {}
    /\ scans = 1
    /\ yielded = <<>>
    /\ past = <<>>
    /\ data = <<>>
    /\ apparent_encoding = "None"
    /\ decoded = NotCalled

\* what is kept of a scan that returned when the caller scans again
Kept ==
    [result |-> result,
     order |-> yielded,
     held |-> [i \in 1..Len(task) |-> [failed |-> task[i].failed, entries |-> task[i].entries]]]

\* the caller calls scan_feeds_concurrent: for the first time, or again after
\* the scan before has returned
Called ==
    \/ pc = "idle" /\ past' = past
    \/ pc = "done" /\ Len(past) + 1 < scans /\ past' = Append(past, Kept)

StartScan_any_workers ==
    /\ Called
    /\ pc' = "collect"
    /\ task' = [i \in 1..Len(rss_feeds) |-> NewTask]
    /\ taken' = {}
    /\ completed' = 0
    /\ seen' = {}
    /\ all_matches' = <<>>
    /\ looked' = {}
    /\ yielded' = <<>>
    /\ UNCHANGED <<config, feed_url, cur, result>>

StartScan_keeps_seen ==
    /\ Called
    /\ IF max_workers <= 0
       THEN /\ pc' = "raised"
            /\ UNCHANGED task
       ELSE /\ pc' = "collect"
            /\ task' = [i \in 1..Len(rss_feeds) |-> NewTask]
    /\ taken' = {}
    /\ completed' = 0
    /\ seen' = seen
    /\ all_matches' = <<>>
    /\ looked' = {}
    /\ yielded' = <<>>
    /\ UNCHANGED <<config, feed_url, cur, result>>

\* scan_feeds_concurrent up to the submission of the futures; the executor
\* refuses max_workers <= 0 with ValueError before anything is submitted
StartScan ==
    /\ Called
    /\ IF max_workers <= 0
       THEN /\ pc' = "raised"
            /\ UNCHANGED task
       ELSE /\ pc' = "collect"
            /\ task' = [i \in 1..Len(rss_feeds) |-> NewTask]
    /\ taken' = {}
    /\ completed' = 0
    /\ seen' = {}
    /\ all_matches' = <<>>
    /\ looked' = {}
    /\ yielded' = <<>>
    /\ UNCHANGED <<config, feed_url, cur, result>>

Busy == {i \in 1..Len(task) : task[i].st \in {"running", "sleeping"}}

\* the call a worker thread makes for future i: fetch(url), where fetch is
\* the caller's function or else self.parse_feed_safe (lines 368, 371)
Invoke(t, i) ==
    [t EXCEPT !.st = "running", !.invoked = @ + 1,
              !.by = IF fetch_given THEN "fetch" ELSE "parse_feed_safe",
              !.url = rss_feeds[i]]

StartFetch_refetch(i) ==
    /\ pc \in {"collect", "entries"}
    /\ i \in 1..Len(task)
    /\ \/ task[i].st = "pending"
       \/ task[i].st = "done" /\ task[i].failed /\ task[i].invoked < 2 /\ i \notin taken
    /\ \A j \in 1..(i - 1) : task[j].st # "pending"
    /\ Cardinality(Busy) < max_workers
    /\ task' = [task EXCEPT ![i] = Invoke(@, i)]
    /\ UNCHANGED <<config, yielded, past, pc, taken, completed, feed_url, cur,
                   seen, all_matches, result, looked>>

\* a free worker thread takes the oldest queued future
StartFetch(i) ==
    /\ pc \in {"collect", "entries"}
    /\ i \in 1..Len(task)
    /\ task[i].st = "pending"
    /\ \A j \in 1..(i - 1) : task[j].st # "pending"
    /\ Cardinality(Busy) < max_workers
    /\ task' = [task EXCEPT ![i] = Invoke(@, i)]
    /\ UNCHANGED <<config, yielded, past, pc, taken, completed, feed_url, cur,
                   seen, all_matches, result, looked>>

\* parse_feed_safe: one call of HTTP.get inside robust_get, and what follows it
Attempt(i) ==
    /\ ~fetch_given
    /\ i \in 1..Len(task)
    /\ task[i].st = "running"
    /\ \E outcome \in {"ok"} \cup ExcKinds :
         LET t    == [task[i] EXCEPT !.calls = @ + 1, !.last = outcome]
             what == simple_retry(task[i].attempt, outcome)
         IN  task' = [task EXCEPT ![i] =
                CASE what = "return" ->
                       [t EXCEPT !.st = "done",
                                 !.entries = ParsedEntries(web[rss_feeds[i]])]
                  [] what = "raise" ->
                       [t EXCEPT !.st = "done", !.caught = outcome]
                  [] OTHER ->
                       [t EXCEPT !.st = "sleeping"]]
    /\ UNCHANGED <<config, yielded, past, pc, taken, completed, feed_url, cur,
                   seen, all_matches, result, looked>>

\* time.sleep(delay) and the next round of the loop; when the loop runs
\* out the wrapper returns None, which parse_feed_safe fails to unpack
Sleep(i) ==
    /\ i \in 1..Len(task)
    /\ task[i].st = "sleeping"
    /\ task' = [task EXCEPT ![i] =
          IF task[i].attempt + 1 < MaxAttempts
          THEN [@ EXCEPT !.st = "running", !.attempt = @ + 1, !.waited = @ + Delay]
          ELSE [@ EXCEPT !.st = "done", !.attempt = @ + 1, !.waited = @ + Delay,
                         !.caught = "TypeError"]]
    /\ UNCHANGED <<config, yielded, past, pc, taken, completed, feed_url, cur,
                   seen, all_matches, result, looked>>

CallerFetch_writes_seen(i) ==
    /\ fetch_given
    /\ i \in 1..Len(task)
    /\ task[i].st = "running"
    /\ task' = [task EXCEPT ![i] =
            [@ EXCEPT !.st = "done", !.entries = ParsedEntries(web[rss_feeds[i]])]]
    /\ seen' = seen \cup {<<i>>}
    /\ UNCHANGED <<config, yielded, past, pc, taken, completed, feed_url, cur,
                   all_matches, result, looked>>

\* the caller's fetch returns the entries of the URL or raises
CallerFetch(i) ==
    /\ fetch_given
    /\ i \in 1..Len(task)
    /\ task[i].st = "running"
    /\ \E ok \in BOOLEAN :
         task' = [task EXCEPT ![i] =
            IF ok THEN [@ EXCEPT !.st = "done", !.entries = ParsedEntries(web[rss_feeds[i]])]
            ELSE [@ EXCEPT !.st = "done", !.failed = TRUE]]
    /\ UNCHANGED <<config, yielded, past, pc, taken, completed, feed_url, cur,
                   seen, all_matches, result, looked>>

\* future.result() inside its try (lines 381-385): a future that raised
\* gives no entries; escapes is TRUE where the exception would leave the scan
future_result_unguarded(t) == [escapes |-> t.failed, entries |-> t.entries]

future_result(t) ==
    [escapes |-> FALSE, entries |-> IF t.failed THEN <<>> ELSE t.entries]

\* as_completed yields a finished future; what it holds is filtered for
\* recency (lines 375-387)
TakeCompleted(i) ==
    /\ pc = "collect"
    /\ i \in 1..Len(task)
    /\ i \notin taken
    /\ task[i].st = "done"
    /\ taken' = taken \cup {i}
    /\ yielded' = Append(yielded, i)
    /\ completed' = completed + 1
    /\ feed_url' = <<i, rss_feeds[i]>>
    /\ LET got    == future_result(task[i])
           recent == filter_recent_entries(got.entries, days, now)
       IN  /\ cur' = IF got.escapes THEN <<>> ELSE recent
           /\ pc' = IF got.escapes THEN "raised"
                    ELSE IF recent = <<>> THEN "collect" ELSE "entries"
    /\ UNCHANGED <<config, past, task, seen, all_matches, result, looked>>

\* one round of the loop over the recent entries (lines 387-420)
ProcessEntry ==
    /\ pc = "entries"
    /\ cur # <<>>
    /\ \E st \in {LoopBody(client_patterns, now,
                           [seen |-> seen, all_matches |-> all_matches,
                            looked |-> looked, raised |-> "none"],
                           Head(cur), feed_url[2], feed_url[1])} :
           /\ seen' = st.seen
           /\ all_matches' = st.all_matches
           /\ looked' = st.looked
           /\ pc' = IF st.raised # "none" THEN "raised"
                    ELSE IF Tail(cur) = <<>> THEN "collect" ELSE "entries"
    /\ cur' = Tail(cur)
    /\ UNCHANGED <<config, yielded, past, task, taken, completed, feed_url, result>>

Return_early ==
    /\ pc = "collect"
    /\ taken # {}
    /\ result' = Sort(all_matches)
    /\ pc' = "done"
    /\ UNCHANGED <<config, yielded, past, task, taken, completed, feed_url, cur,
                   seen, all_matches, looked>>

\* every future was yielded: the executor is left, the list sorted and returned
Return ==
    /\ pc = "collect"
    /\ taken = 1..Len(task)
    /\ result' = Sort(all_matches)
    /\ pc' = "done"
    /\ UNCHANGED <<config, yielded, past, task, taken, completed, feed_url, cur,
                   seen, all_matches, looked>>

Next ==
    \/ StartScan
    \/ \E i \in 1..Len(task) : StartFetch(i)
    \/ \E i \in 1..Len(task) : Attempt(i)
    \/ \E i \in 1..Len(task) : Sleep(i)
    \/ \E i \in 1..Len(task) : CallerFetch(i)
    \/ \E i \in 1..Len(task) : TakeCompleted(i)
    \/ ProcessEntry
    \/ Return

Spec == Init /\ [][Next]_vars

\* the scans in which a caller's fetch may hand over malformed entries
MalformedDocs ==
    {<<>>, <<E_tour>>, <<M_id>>, <<M_text>>, <<E_tour, M_text>>, <<M_text, E_tour>>,
     <<M_content, E_tour>>}

MalformedPages == {[xml |-> TRUE, entries |-> d] : d \in MalformedDocs}

\* the monitor as constructed and not yet scanning; a caller's fetch serves
\* the pages given, parse_feed_safe the pages parsed, and the caller will
\* scan runs times
SetupOf(lists, given, parsed, runs) ==
    /\ \E names \in lists :
         /\ clients = SelectSeq(names, NonEmpty)
         /\ client_patterns = _compile_client_patterns(SelectSeq(names, NonEmpty))
    /\ \E feeds \in FeedLists : rss_feeds = SelectSeq(feeds, NonEmpty)
    /\ max_workers \in WorkerChoices
    /\ days \in LookbackChoices
    /\ fetch_given \in BOOLEAN
    /\ now \in Clocks
    /\ web \in [Range(rss_feeds) -> IF fetch_given THEN given ELSE parsed]
    /\ pc = "idle"
    /\ task = <<>>
    /\ taken = {}
    /\ completed = 0
    /\ feed_url = <<>>
    /\ cur = <<>>
    /\ seen = {}
    /\ all_matches = <<>>
    /\ result = <<>>
    /\ looked = {}
    /\ scans = runs
    /\ yielded = <<>>
    /\ past = <<>>
    /\ data = <<>>
    /\ apparent_encoding = "None"
    /\ decoded = NotCalled

Setup(given, parsed, runs) == SetupOf(ClientLists, given, parsed, runs)

InitMalformed ==
    Setup(MalformedPages, {[xml |-> TRUE, entries |-> d] : d \in {<<>>, <<E_tour>>}}, 1)

SpecMalformed == InitMalformed /\ [][Next]_vars

\* the scans of feeds that serve the example entries, one to a document
ExamplePages == {[xml |-> TRUE, entries |-> <<Examples[k]>>] : k \in 1..Len(Examples)}

InitExamples == Setup(ExamplePages, ExamplePages, 1)

SpecExamples == InitExamples /\ [][Next]_vars

\* the scans of feeds that serve the scoring examples, one to a document
ScoredPages ==
    {[xml |-> TRUE, entries |-> <<e>>] : e \in Range(Scored) \cup {E_tour, E_two, X_frak}}

InitScored == Setup(ScoredPages, ScoredPages, 1)

SpecScored == InitScored /\ [][Next]_vars

\* the scans of feeds that serve the anchoring examples, by a monitor for
\* the clients .NET and Art
AnchoredPages ==
    {[xml |-> TRUE, entries |-> d] :
        d \in {<<Anchored[k]>> : k \in 1..Len(Anchored)} \cup {<<A_inside, A_artisan>>}}

InitAnchored == SetupOf(AnchorClientLists, AnchoredPages, AnchoredPages, 1)

SpecAnchored == InitAnchored /\ [][Next]_vars

\* the scans of feeds that serve the entries of Keyed, one to a document
KeyedPages == {[xml |-> TRUE, entries |-> <<Keyed[k]>>] : k \in 1..Len(Keyed)}

InitKeyed == Setup(KeyedPages, KeyedPages, 1)

SpecKeyed == InitKeyed /\ [][Next]_vars

\* the longest byte string decoded
MaxBytes == 3

\* the bytes the strings are made of: "A", the two bytes of U+00E9, the byte
\* of U+00E9 in Latin-1, the three bytes of the byte order mark
ByteChoices == {65, 195, 169, 233, 239, 187, 191}

\* the hints: none, empty, the three encodings of the loop, another codec
\* and a name no codec has
HintChoices == {"None", "", "utf-8", "utf-8-sig", "latin-1", "ascii", "x-unknown"}

\* a monitor that is not scanning, and one call of decode_bytes_best_effort
\* about to be made
InitDecode ==
    /\ clients = <<>>
    /\ client_patterns = <<>>
    /\ rss_feeds = <<>>
    /\ max_workers = 1
    /\ days = 7
    /\ fetch_given = FALSE
    /\ now = 100
    /\ web = <<>>
    /\ pc = "idle"
    /\ task = <<>>
    /\ taken = {}
    /\ completed = 0
    /\ feed_url = <<>>
    /\ cur = <<>>
    /\ seen = {}
    /\ all_matches = <<>>
    /\ result = <<>>
    /\ looked = {}
    /\ scans = 0
    /\ yielded = <<>>
    /\ past = <<>>
    /\ data \in UNION {[1..len -> ByteChoices] : len \in 0..MaxBytes}
    /\ apparent_encoding \in HintChoices
    /\ decoded = NotCalled

Decode ==
    /\ ~decoded.done
    /\ decoded' = [done   |-> TRUE,
                   raised |-> decode_bytes_best_effort(data, apparent_encoding).raised,
                   by     |-> decode_bytes_best_effort(data, apparent_encoding).by,
                   text   |-> decode_bytes_best_effort(data, apparent_encoding).text]
    /\ UNCHANGED <<clients, client_patterns, rss_feeds, max_workers, days, fetch_given,
                   now, web, pc, task, taken, completed, feed_url, cur, seen, all_matches,
                   result, looked, scans, yielded, past, data, apparent_encoding>>

NextDecode == Decode

SpecDecode == InitDecode /\ [][NextDecode]_vars

\* the caller scans twice with one monitor
RescanPages ==
    {[xml |-> TRUE, entries |-> d] : d \in {<<>>, <<E_tour>>, <<E_dup, E_two>>}}

InitRescan == Setup(RescanPages, RescanPages, 2)

SpecRescan == InitRescan /\ [][Next]_vars

\* a started scan goes on: the executor runs every queued future, a fetch
\* that was called ends (each HTTP attempt has a timeout, the retries are
\* bounded), and the scanning thread, which nothing blocks but the futures,
\* takes each finished future and works through its entries
Progress ==
    /\ WF_vars(\E i \in 1..Len(task) : StartFetch(i))
    /\ WF_vars(\E i \in 1..Len(task) : Attempt(i))
    /\ WF_vars(\E i \in 1..Len(task) : Sleep(i))
    /\ WF_vars(\E i \in 1..Len(task) : CallerFetch(i))
    /\ WF_vars(\E i \in 1..Len(task) : TakeCompleted(i))
    /\ WF_vars(ProcessEntry)
    /\ WF_vars(Return)

FairSpecExamples == SpecExamples /\ Progress

(***************************************************************************)
(* Properties                                                              *)
(***************************************************************************)
Tasks == 1..Len(task)

\* the entries future j handed to the loop, once it is done
Served(j) == filter_recent_entries(future_result(task[j]).entries, days, now)

\* the fetch of future j failed: the caller's fetch raised, or robust_get
\* raised into parse_feed_safe
FetchFailed(j) ==
    task[j].st = "done" /\ (task[j].failed \/ task[j].caught # "none")

\* the id/guid an entry carries, trimmed as the key derivation trims it
IdOf(e) == Strip(IF e.id # <<>> THEN e.id ELSE e.guid)

\* C1: every Match of the returned list has a relevance score from 1.0 to
\* 5.0 (10 to 50 tenths), whatever the clients, feeds, entries and the
\* order in which the futures completed.
C1_ScoreInRange ==
    \A k \in 1..Len(result) :
        result[k].relevance_score >= 10 /\ result[k].relevance_score <= 50

\* a scan returned a Match whose additions exceed the cap next to one below it
C1_Witness ==
    /\ pc = "done"
    /\ \E k \in 1..Len(result) :
          /\ result[k].relevance_score = 50
          /\ _calculate_relevance_score_uncapped(
                 _entry_text(Catalogue[result[k].n]), result[k].client,
                 result[k].title) > 50
    /\ \E k \in 1..Len(result) : result[k].relevance_score < 50

\* what a finished future handed to the loop
ServedBy(j) == IF task[j].st = "done" THEN Served(j) ELSE <<>>

\* the places <<future, position>> of the handed-over entries that carry id g
Carriers(g) ==
    {c \in UNION {{<<j, x>> : x \in 1..Len(ServedBy(j))} : j \in Tasks} :
        IdOf(ServedBy(c[1])[c[2]]) = g}

CarriedIds ==
    UNION {{IdOf(ServedBy(j)[x]) : x \in 1..Len(ServedBy(j))} : j \in Tasks} \ {<<>>}

MatchesOfId(g) == {k \in 1..Len(result) : IdOf(Catalogue[result[k].n]) = g}

\* C2: when two different futures of a scan each hand over an in-window
\* entry carrying the same non-empty (trimmed) id/guid, and each entry
\* carrying it has a text that matches exactly one client, the returned list
\* holds exactly one Match for that id, whichever future completed first.
C2_OneMatchAcrossFeeds ==
    pc = "done" =>
        \A g \in CarriedIds :
            LET car == Carriers(g)
            IN  (/\ \E a \in car, b \in car : a[1] # b[1]
                 /\ \A c \in car :
                       Len(Facts(client_patterns, ServedBy(c[1])[c[2]]).matches) = 1)
                => Cardinality(MatchesOfId(g)) = 1

\* two feeds with different URLs served different entries under one guid
C2_Witness ==
    /\ pc = "done"
    /\ \E g \in CarriedIds :
          LET car == Carriers(g)
          IN  /\ \E a \in car, b \in car :
                    /\ rss_feeds[a[1]] # rss_feeds[b[1]]
                    /\ ServedBy(a[1])[a[2]].id = g
                    /\ ServedBy(b[1])[b[2]].guid = g
              /\ \A c \in car :
                    Len(Facts(client_patterns, ServedBy(c[1])[c[2]]).matches) = 1
              /\ Cardinality(MatchesOfId(g)) = 1

RECURSIVE RunEntries(_, _, _, _)
\* the loop over the entries of one future, run to its end
RunEntries(st, entries, url, ti) ==
    IF entries = <<>> THEN st
    ELSE RunEntries(LoopBody(client_patterns, now, st, Head(entries), url, ti),
                    Tail(entries), url, ti)

RECURSIVE RunFutures(_, _)
\* the futures processed one after the other in the given order
RunFutures(order, st) ==
    IF order = <<>> THEN st
    ELSE RunFutures(Tail(order),
                    RunEntries(st, Served(Head(order)), rss_feeds[Head(order)],
                               Head(order)))

\* the list the scan returns when the futures complete in submission order
InSubmissionOrder ==
    Sort(RunFutures([i \in 1..Len(task) |-> i],
                    [seen |-> {}, all_matches |-> <<>>, looked |-> {}]).all_matches)

\* the fields of a Match without found_date
Visible(m) ==
    [client |-> m.client, title |-> m.title, description |-> m.description,
     link |-> m.link, published |-> m.published, source |-> m.source,
     domain |-> m.domain, relevance_score |-> m.relevance_score]

\* C3: for fixed clients, feeds, lookback and fetch results the returned
\* list is the same for every order in which the futures complete: it is
\* the list returned when they complete in submission order (all fields but
\* found_date compared).
C3_OrderIndependent ==
    pc = "done" =>
        [k \in 1..Len(result) |-> Visible(result[k])]
          = [k \in 1..Len(InSubmissionOrder) |-> Visible(InSubmissionOrder[k])]

FactsAt(w) == Facts(client_patterns, Catalogue[w[2]])

\* C4: a failed fetch (the caller's fetch raised, or robust_get raised into
\* parse_feed_safe) does not make the scan raise and contributes no entry;
\* every in-window entry of the other futures is processed, every Match
\* appended is returned, each seen key is represented by one processed
\* entry with all its Matches; when every fetch failed the list is empty.
C4_FailedFeedContained ==
    /\ pc = "raised" => max_workers <= 0
    /\ \A j \in Tasks :
          FetchFailed(j) =>
              /\ \A w \in looked : w[1] # j
              /\ \A k \in 1..Len(all_matches) : all_matches[k].task # j
    /\ pc = "done" =>
          /\ \A j \in Tasks : \A x \in 1..Len(Served(j)) :
                <<j, Served(j)[x].n>> \in looked
          /\ \A k \in 1..Len(all_matches) :
                \E r \in 1..Len(result) : result[r] = all_matches[k]
          /\ \A key \in seen :
                \E w \in looked :
                    /\ FactsAt(w).key = key
                    /\ \A x \in 1..Len(FactsAt(w).matches) :
                          \E r \in 1..Len(result) :
                              /\ result[r].task = w[1]
                              /\ result[r].n = w[2]
                              /\ result[r].client = FactsAt(w).matches[x].client
                    /\ \A r \in 1..Len(result) :
                          result[r].key = key => <<result[r].task, result[r].n>> = w
          /\ (\A j \in Tasks : FetchFailed(j)) => result = <<>>

\* the caller's fetch raised for a feed that serves entries, and the scan
\* returned the matches of another feed
C4_Witness ==
    /\ pc = "done"
    /\ fetch_given
    /\ result # <<>>
    /\ \E j \in Tasks :
          /\ task[j].failed
          /\ filter_recent_entries(ParsedEntries(web[rss_feeds[j]]), days, now) # <<>>

\* C5: the returned list is sorted: of two adjacent Matches the first has
\* the greater score, or the same score and the smaller domain, or the same
\* score and domain and a title that is not greater.
C5_Sorted ==
    \A k \in 1..(Len(result) - 1) :
        LET a == result[k]
            b == result[k + 1]
        IN  \/ a.relevance_score > b.relevance_score
            \/ /\ a.relevance_score = b.relevance_score
               /\ StrLess(a.domain, b.domain)
            \/ /\ a.relevance_score = b.relevance_score
               /\ a.domain = b.domain
               /\ StrLeq(a.title, b.title)

\* the sort moved Matches: a tie on the score is broken by the domain, a tie
\* on score and domain by the title
C5_Witness ==
    /\ pc = "done"
    /\ result # all_matches
    /\ \E k \in 1..(Len(result) - 1) :
          /\ result[k].relevance_score = result[k + 1].relevance_score
          /\ result[k].domain # result[k + 1].domain
    /\ \E k \in 1..(Len(result) - 1) :
          /\ result[k].relevance_score = result[k + 1].relevance_score
          /\ result[k].domain = result[k + 1].domain
          /\ result[k].title # result[k + 1].title

\* the client names whose normalised, trimmed form has fewer than 3 characters
ShortClients == {c \in Range(clients) : Len(Strip(_normalise_text(c))) < 3}

\* C6: for a client name whose normalised (lower-cased, diacritics
\* stripped, trimmed) form has fewer than 3 characters no pattern is
\* compiled, and no Match of any scan carries that client.
C6_ShortClientsNeverMatch ==
    \A c \in ShortClients :
        /\ \A k \in 1..Len(client_patterns) : client_patterns[k][1] # c
        /\ \A k \in 1..Len(all_matches) : all_matches[k].client # c
        /\ \A k \in 1..Len(result) : result[k].client # c

\* a scan processed an entry whose text has the short name as a word, for a
\* name of 3 raw characters, and returned Matches of other clients for it
C6_Witness ==
    /\ pc = "done"
    /\ \E c \in ShortClients :
          /\ Len(c) >= 3
          /\ \E k \in 1..Len(result) :
                LET base == Strip(_normalise_text(c))
                    n    == _normalise_text(_entry_text(Catalogue[result[k].n]))
                IN  \E p \in 1..Len(n) :
                        /\ OccursAt(base, n, p)
                        /\ BOUNDARY(n, p)
                        /\ END_BOUND(n, p + Len(base))

\* C7: an entry whose resolved timestamp is older than the clock minus the
\* lookback window is never processed (the loop body never runs for it, it
\* leaves no key and no Match), and an entry without a resolvable timestamp
\* is always handed to the loop body.
C7_Recency ==
    /\ \A w \in looked :
          LET dt == parse_datetime_from_entry(Catalogue[w[2]])
          IN  dt.some => dt.day >= now - days
    /\ \A k \in 1..Len(all_matches) :
          LET dt == parse_datetime_from_entry(Catalogue[all_matches[k].n])
          IN  dt.some => dt.day >= now - days
    /\ seen = {FactsAt(w).key : w \in looked}
    /\ \A j \in taken :
          (pc = "entries" => feed_url[1] # j) =>
              \A x \in 1..Len(future_result(task[j]).entries) :
                  LET e == future_result(task[j]).entries[x]
                  IN  ~parse_datetime_from_entry(e).some => <<j, e.n>> \in looked

\* a feed served an entry one day too old, which was skipped, and the scan
\* returned the Match of an undated entry with the same key
C7_Witness ==
    /\ pc = "done"
    /\ \E j \in Tasks : \E x \in 1..Len(future_result(task[j]).entries) :
          LET e  == future_result(task[j]).entries[x]
              dt == parse_datetime_from_entry(e)
          IN  /\ dt.some /\ dt.day = now - days - 1
              /\ <<j, e.n>> \notin looked
              /\ \E k \in 1..Len(result) :
                    /\ result[k].key = _dedupe_key(e)
                    /\ ~parse_datetime_from_entry(Catalogue[result[k].n]).some

\* C8 as stated: no two distinct Matches of the returned list have the same
\* dedupe key and the same source feed.
C8_Original ==
    \A k \in 1..Len(result) : \A l \in 1..Len(result) :
        k # l => ~(result[k].key = result[l].key /\ result[k].source = result[l].source)

\* C8 amended: two distinct Matches of the returned list have the same
\* dedupe key only when they come from one and the same entry of one feed
\* and name different clients; entries with the same key, from the same feed
\* or from different feeds, never both produce Matches.
C8_OneEntryPerKey ==
    \A k \in 1..Len(result) : \A l \in 1..Len(result) :
        (k # l /\ result[k].key = result[l].key) =>
            /\ result[k].task = result[l].task
            /\ result[k].n = result[l].n
            /\ result[k].client # result[l].client

\* one entry gave two Matches, and a key was met twice in the scan
C8_Witness ==
    /\ pc = "done"
    /\ \E k \in 1..Len(result) : \E l \in 1..Len(result) :
          k # l /\ result[k].key = result[l].key
    /\ \E v \in looked : \E w \in looked :
          /\ v # w
          /\ FactsAt(v).key = FactsAt(w).key
          /\ FactsAt(v).matches # <<>>
          /\ FactsAt(w).matches # <<>>

\* "Matt Corby announces a new album tour"
ExampleText ==
    <<77, 97, 116, 116, 32, 67, 111, 114, 98, 121, 32, 97, 110, 110, 111, 117,
      110, 99, 101, 115, 32, 97, 32, 110, 101, 119, 32, 97, 108, 98, 117, 109,
      32, 116, 111, 117, 114>>

\* the Matches appended for the example: that text, client and title "Matt Corby"
ExampleMatches ==
    {k \in 1..Len(all_matches) :
        /\ _entry_text(Catalogue[all_matches[k].n]) = ExampleText
        /\ all_matches[k].client = C_MattCorby
        /\ all_matches[k].title = C_MattCorby}

\* C9 as stated: for that text, client and title the score is 4.2.
C9_Original == \A k \in ExampleMatches : all_matches[k].relevance_score = 42

\* C9 amended: for entry text "Matt Corby announces a new album tour",
\* client "Matt Corby" and title "Matt Corby" the score is 4.9: 1.0 base,
\* 2.0 for the title, 0.7 for the name within the first 200 characters of
\* the text, 0.3 for each of the four keywords.
C9_ExampleScore == \A k \in ExampleMatches : all_matches[k].relevance_score = 49

C9_Witness == ExampleMatches # {}

\* C10: one call of robust_get makes at most 3 attempts; it goes on only
\* after a failed attempt, so the first success is returned with no further
\* attempt; it has waited the delay once for each attempt but the last one,
\* never after the last; a failure of the 3rd attempt is raised to
\* parse_feed_safe, whatever its kind.
C10_Retry ==
    ~fetch_given =>
        \A i \in Tasks :
            LET t == task[i]
            IN  /\ t.calls <= 3
                /\ t.st = "pending" => t.calls = 0 /\ t.waited = 0
                /\ t.st = "running" =>
                      /\ t.calls = t.attempt /\ t.calls < 3
                      /\ t.waited = 2 * t.calls
                      /\ t.calls > 0 => t.last \in ExcKinds
                /\ t.st = "sleeping" =>
                      /\ t.calls = t.attempt + 1 /\ t.calls < 3
                      /\ t.waited = 2 * (t.calls - 1)
                      /\ t.last \in ExcKinds
                /\ t.st = "done" =>
                      /\ t.calls >= 1
                      /\ t.waited = 2 * (t.calls - 1)
                      /\ t.last = "ok" =>
                            /\ t.caught = "none"
                            /\ t.entries = ParsedEntries(web[rss_feeds[i]])
                      /\ t.last # "ok" =>
                            /\ t.calls = 3
                            /\ t.caught = t.last
                            /\ t.entries = <<>>

\* one call failed three times and raised the last failure after two waits,
\* another succeeded at its second attempt after one wait
C10_Witness ==
    /\ ~fetch_given
    /\ \E i \in Tasks :
          /\ task[i].st = "done" /\ task[i].calls = 3
          /\ task[i].caught = "HTTPError" /\ task[i].waited = 4
    /\ \E i \in Tasks :
          /\ task[i].st = "done" /\ task[i].calls = 2
          /\ task[i].last = "ok" /\ task[i].waited = 2


\* C11: with max_workers > 0 the scan never raises: a failure while one feed
\* is fetched or one entry is processed stays at that feed or entry.
\* Refuted where a caller's fetch hands over an entry whose id is not a
\* string: _dedupe_key raises AttributeError and nothing in the loop over
\* the entries catches it.
C11_NeverRaises == max_workers > 0 => pc # "raised"


\* C12: a scan of a monitor whose max_workers is <= 0 ends with an error and
\* returns no list, and no future was submitted and no fetch started before
\* the error.
C12_BadWorkersAbort ==
    max_workers <= 0 =>
        /\ pc \in {"idle", "raised"}
        /\ task = <<>>
        /\ looked = {}
        /\ result = <<>>

\* a scan with max_workers = 0 of a monitor that has feeds was refused
C12_Witness == max_workers <= 0 /\ pc = "raised" /\ rss_feeds # <<>>


\* C13: the scan submits one future for each element of the feed list, and
\* the function of a future is called at most once, with the URL of its
\* element: the caller's fetch when one is given (no HTTP attempt of
\* parse_feed_safe is then made), else parse_feed_safe. A future that failed
\* is not called again, and when the scan returns every function was called
\* exactly once.
C13_FetchOnce ==
    pc \in {"collect", "entries", "done"} =>
        /\ Len(task) = Len(rss_feeds)
        /\ \A i \in Tasks :
              LET t == task[i]
              IN  /\ t.invoked = IF t.st = "pending" THEN 0 ELSE 1
                  /\ t.invoked = 1 =>
                        /\ t.url = rss_feeds[i]
                        /\ t.by = IF fetch_given THEN "fetch" ELSE "parse_feed_safe"
                  /\ fetch_given => t.calls = 0
                  /\ pc = "done" => t.invoked = 1

\* a scan with the caller's fetch returned although one of its two futures
\* failed
C13_Witness ==
    /\ pc = "done"
    /\ fetch_given
    /\ Len(task) = 2
    /\ \E i \in Tasks : task[i].failed
    /\ \E i \in Tasks : ~task[i].failed


\* the Matches of the entry numbered n, as clients
ClientsMatched(n) == {all_matches[k].client : k \in {j \in 1..Len(all_matches) : all_matches[j].n = n}}

LookedAt(n) == \E w \in looked : w[2] = n

\* C14: matching ignores case and accepts the possessive 's, and the name
\* "Matt Corby" is not found in its space-stripped handle: the entries
\* "matt corby" and "MATT CORBY'S" give a Match for the client Matt Corby
\* once the loop has looked at them, "@mattcorby" and "#mattcorby" never do.
C14_MattCorbyPattern ==
    /\ LookedAt(X_lower.n) => ClientsMatched(X_lower.n) = {C_MattCorby}
    /\ LookedAt(X_poss.n) => ClientsMatched(X_poss.n) = {C_MattCorby}
    /\ ClientsMatched(X_at.n) = {}
    /\ ClientsMatched(X_hash.n) = {}

\* a scan that looked at "MATT CORBY'S" and at "@mattcorby" returned the one
\* Match of the first
C14_Witness ==
    /\ pc = "done"
    /\ LookedAt(X_poss.n)
    /\ LookedAt(X_at.n)
    /\ Len(result) = 1
    /\ result[1].client = C_MattCorby


\* C15: normalising a normalised text changes nothing, for every text the
\* loop has normalised. Refuted by U+210C: lower() leaves it, NFKD turns it
\* into the capital H, and a second pass lowers that to h.
C15_Idempotent ==
    \A k \in 1..Len(Examples) :
        LookedAt(Examples[k].n) =>
            LET t == _entry_text(Examples[k])
            IN  _normalise_text(_normalise_text(t)) = _normalise_text(t)


\* the steps a future may take: pending -> fetching (running, or sleeping
\* between two attempts) -> done (succeeded or failed), and a done future
\* stays as it is
TaskStep(i) ==
    /\ <<task[i].st, task'[i].st>> \in
          {<<"pending", "pending">>, <<"pending", "running">>,
           <<"running", "running">>, <<"running", "sleeping">>, <<"running", "done">>,
           <<"sleeping", "sleeping">>, <<"sleeping", "running">>,
           <<"done", "done">>}
    /\ task[i].st = "done" => task'[i] = task[i]

\* every future was yielded and every entry it served went through the loop
Joined ==
    /\ taken = Tasks
    /\ completed = Len(task)
    /\ cur = <<>>
    /\ \A j \in Tasks :
          /\ task[j].st = "done"
          /\ \A k \in 1..Len(Served(j)) : <<j, Served(j)[k].n>> \in looked
    /\ result = Sort(all_matches)

\* C16: a future only moves pending -> fetching -> succeeded or failed and
\* never leaves the final state; a scan that has submitted its futures
\* eventually returns, given that every fetch ends; and when it has returned
\* no future is pending or fetching and every future's entries were
\* processed before the sort.
C16_LifeCycleAndJoin ==
    /\ [][pc # "idle" => \A i \in Tasks : TaskStep(i)]_vars
    /\ [](pc = "done" => Joined)
    /\ (pc = "collect") ~> (pc = "done")

\* a scan returned after one of its two futures failed and the other one
\* served an entry
C16_Witness ==
    /\ pc = "done"
    /\ Len(task) = 2
    /\ \E i \in Tasks : task[i].failed
    /\ \E i \in Tasks : ~task[i].failed /\ Served(i) # <<>>


\* a step of a worker thread: a future starts, or its fetch goes on or ends
WorkerStep == \E i \in Tasks : task'[i] # task[i]

\* the check-then-insert of the loop for the entry at the head of cur
CheckThenInsert ==
    LET facts == Facts(client_patterns, Head(cur))
    IN  IF facts.key \in seen
        THEN UNCHANGED <<seen, all_matches>>
        ELSE seen' = seen \cup {facts.key}

\* C17: seen and all_matches are written by the scanning thread alone: a
\* step of a worker leaves both as they are, under every interleaving; a
\* round of the loop passes an entry only if its key is not in seen and
\* inserts the key in the same step; so the Matches of one key all come from
\* one entry of one future, also when the futures serving it were finished
\* at the same time.
C17_DedupeSerialized ==
    /\ [][pc # "idle" /\ WorkerStep => UNCHANGED <<seen, all_matches>>]_vars
    /\ [][ProcessEntry => CheckThenInsert]_vars
    /\ [](\A a, b \in 1..Len(all_matches) :
            all_matches[a].key = all_matches[b].key =>
                /\ all_matches[a].task = all_matches[b].task
                /\ all_matches[a].n = all_matches[b].n)

\* two futures that both serve the key of E_tour are finished; the loop has
\* taken one of them and let its entry pass, the other is still to be taken
C17_Witness ==
    /\ Len(task) = 2
    /\ \A j \in Tasks :
          /\ task[j].st = "done"
          /\ \E k \in 1..Len(Served(j)) : IdOf(Served(j)[k]) = E_tour.id
    /\ Cardinality(taken) = 1
    /\ \E k \in 1..Len(all_matches) : all_matches[k].key = E_tour.id


\* for the entries that can be served and the clients that can be
\* configured: <<entry number, client, score>> where the client's pattern
\* is found in the normalised text of the entry, with the score of that
\* client for the entry
ExpectedMatches ==
    UNION {{<<e.n, c, _calculate_relevance_score(_entry_text(e), c,
                         IF e.title # <<>> THEN e.title ELSE NO_TITLE)>> :
               c \in {x \in UNION {Range(names) : names \in ClientLists} :
                        /\ x # <<>>
                        /\ _name_variants(x) # <<>>
                        /\ Search(_name_variants(x), _normalise_text(_entry_text(e)))}} :
           e \in Range(Catalogue)}

ExpectedOf(n) == {x \in ExpectedMatches : x[1] = n}

\* what a round of the loop appends: for an entry that is no duplicate and
\* is not blank, one Match for each client found in it; else nothing
AppendsExpected ==
    LET facts == Facts(client_patterns, Head(cur))
        added == SubSeq(all_matches', Len(all_matches) + 1, Len(all_matches'))
    IN  /\ SubSeq(all_matches', 1, Len(all_matches)) = all_matches
        /\ IF facts.key \in seen \/ facts.blank
           THEN added = <<>>
           ELSE /\ Len(added) = Cardinality(ExpectedOf(Head(cur).n))
                /\ \A x \in ExpectedOf(Head(cur).n) :
                      \E k \in 1..Len(added) :
                          /\ added[k].client = x[2]
                          /\ added[k].relevance_score = x[3]
                          /\ added[k].n = x[1]
                          /\ added[k].task = feed_url[1]

\* the returned list holds the Matches collected, each as often as collected
SameMatches ==
    /\ Len(result) = Len(all_matches)
    /\ \A k \in 1..Len(result) :
          Cardinality({j \in 1..Len(result) : result[j] = result[k]})
              = Cardinality({j \in 1..Len(all_matches) : all_matches[j] = result[k]})

\* C18: an entry in the window that is no duplicate and whose text is not
\* blank gets exactly one Match for each client whose pattern is found in
\* its normalised text, scored for that client, and none for another
\* client (k clients: k Matches); a duplicate or blank entry gets none; the
\* returned list holds exactly the Matches so collected.
C18_OneMatchPerClient ==
    /\ [][ProcessEntry => AppendsExpected]_vars
    /\ [][all_matches' # all_matches => StartScan \/ ProcessEntry]_vars
    /\ [](pc = "done" => SameMatches)

\* the returned list has the two Matches of E_two, one for each client named
\* in it, with different scores
C18_Witness ==
    /\ pc = "done"
    /\ \E a, b \in 1..Len(result) :
          /\ result[a].n = E_two.n /\ result[b].n = E_two.n
          /\ result[a].task = result[b].task
          /\ result[a].client # result[b].client
          /\ result[a].relevance_score # result[b].relevance_score
    /\ Cardinality({k \in 1..Len(result) : result[k].n = E_two.n}) = 2


\* a Match without the time it was found at
Undated(m) ==
    [client |-> m.client, title |-> m.title, description |-> m.description,
     link |-> m.link, published |-> m.published, source |-> m.source,
     domain |-> m.domain, relevance_score |-> m.relevance_score]

\* the scan that just returned had the fetch results and the completion
\* order of the scan kept as p
SameRun(p) ==
    /\ yielded = p.order
    /\ \A i \in Tasks :
          /\ task[i].failed = p.held[i].failed
          /\ task[i].entries = p.held[i].entries

\* C19: seen belongs to one scan: a second scan with the monitor, given the
\* fetch results and the completion order of the first, returns the same
\* Matches in the same order (found_date aside); and no step of a scan
\* changes the monitor's clients, feeds or compiled patterns.
C19_SeenPerScan ==
    /\ [][UNCHANGED <<clients, rss_feeds, client_patterns>>]_vars
    /\ [](pc = "done" /\ past # <<>> /\ SameRun(past[1]) =>
            /\ Len(result) = Len(past[1].result)
            /\ \A k \in 1..Len(result) : Undated(result[k]) = Undated(past[1].result[k]))

\* the second scan repeated the first and returned its two or more Matches
C19_Witness ==
    /\ pc = "done"
    /\ past # <<>>
    /\ SameRun(past[1])
    /\ Len(past[1].result) >= 2
    /\ Len(result) >= 2

\* the score as the closed formula gives it, in tenths: nc, nt and ntitle are
\* the normalised client, text and title
ClosedScore(nc, nt, ntitle) ==
    LET in_title == \E p \in 1..Len(ntitle) : OccursAt(nc, ntitle, p)
        in_lead  == \E p \in 1..(200 - Len(nc) + 1) : OccursAt(nc, nt, p)
        n        == Cardinality({p \in 1..Len(nt) : OccursAt(nc, nt, p)})
        k        == Cardinality({w \in Range(KEYWORDS) : \E p \in 1..Len(nt) : OccursAt(w, nt, p)})
        sum      == 10 + (IF in_title THEN 20 ELSE 0) + (IF in_lead THEN 7 ELSE 0)
                       + 5 * (IF n > 1 THEN n - 1 ELSE 0) + 3 * k
    IN  IF sum < 50 THEN sum ELSE 50

ScoredEntries == UNION {Range(d.entries) : d \in ScoredPages}

\* entry, client and closed-formula score, for the scoring examples and the
\* configured clients
ClosedScores ==
    {<<e.n, c, ClosedScore(_normalise_text(c), _normalise_text(_entry_text(e)),
                           _normalise_text(IF e.title # <<>> THEN e.title ELSE NO_TITLE))>> :
        e \in ScoredEntries, c \in UNION {Range(names) : names \in ClientLists} \ {<<>>}}

\* C20: the score of a Match is min(5.0, 1.0 + 2.0 for the normalised client
\* in the normalised title + 0.7 for the normalised client within the first
\* 200 characters of the normalised text + 0.5 for each occurrence after the
\* first + 0.3 for each of the eight keywords present, counted once each).
C20_ScoreFormula ==
    /\ \A k \in 1..Len(all_matches) :
          <<all_matches[k].n, all_matches[k].client, all_matches[k].relevance_score>> \in ClosedScores
    /\ \A k \in 1..Len(result) :
          <<result[k].n, result[k].client, result[k].relevance_score>> \in ClosedScores

\* one scan returned the Match of the name ending at the 200th character
\* of the text (1.7, with the lead bonus) and the Match of the name lying
\* across it (1.0, without)
C20_Witness ==
    /\ pc = "done"
    /\ \E k \in 1..Len(result) :
          result[k].n = S_edge.n /\ result[k].relevance_score = 17
    /\ \E k \in 1..Len(result) :
          result[k].n = S_straddle.n /\ result[k].relevance_score = 10

\* the name of the client, as compiled into its pattern, lies in the
\* normalised text n at position p with no word character right before it
\* and none right after it
Delimited(client, n, p) ==
    LET base == Strip(_normalise_text(client))
    IN  /\ OccursAt(base, n, p)
        /\ ~(p > 1 /\ IsWord(n[p - 1]))
        /\ ~(p + Len(base) <= Len(n) /\ IsWord(n[p + Len(base)]))

\* entry n of the anchoring examples has the name of the client delimited
\* somewhere in its normalised text
HasDelimited(n, client) ==
    \E e \in Range(Anchored) :
        /\ e.n = n
        /\ \E p \in 1..Len(_normalise_text(_entry_text(e))) :
              Delimited(client, _normalise_text(_entry_text(e)), p)

\* C21: the pattern of a client matches no occurrence of the name that has
\* a word character right before or right after it: every Match of an entry
\* is for a client whose name occurs in the entry's normalised text with no
\* word character on either side.
C21_BoundaryAnchored ==
    \A k \in 1..Len(all_matches) : HasDelimited(all_matches[k].n, all_matches[k].client)

\* the entries of Keyed the loop body ran for in this scan
KeyedLooked == {e \in Range(Keyed) : \E w \in looked : w[2] = e.n}

\* the string the key of an entry is derived from, as stated: the id or guid
\* where one is present and non-empty, else canonical link, "|" and the
\* trimmed, lower-cased title
DerivedString(e) ==
    IF e.id # <<>> THEN Strip(e.id)
    ELSE IF e.guid # <<>> THEN Strip(e.guid)
    ELSE canonicalise_url(e.link) \o <<124>> \o StrLower(Strip(e.title))

\* C22: the key of an entry with a non-empty id or guid is derived from
\* that alone, the key of any other entry from canonical link, "|" and
\* title: two entries the loop has keyed have equal keys exactly when these
\* derived strings are equal.
C22_KeyDerivation ==
    \A e1, e2 \in KeyedLooked :
        (_dedupe_key(e1) = _dedupe_key(e2)) <=> (DerivedString(e1) = DerivedString(e2))

\* a parameter name that begins with utm_ or is fbclid, gclid or igshid
IsTrackingName(name) ==
    \/ Prefix(name, 4) = <<117, 116, 109, 95>>
    \/ name \in {<<102, 98, 99, 108, 105, 100>>, <<103, 99, 108, 105, 100>>, <<105, 103, 115, 104, 105, 100>>}

NoTrackingName(kv) == ~IsTrackingName(kv[1])

\* what is left of a link when host case, fragment and tracking parameters
\* are set aside
LinkEssence(url) ==
    [scheme |-> urlparse(url).scheme,
     host   |-> StrLower(urlparse(url).netloc),
     path   |-> urlparse(url).path,
     params |-> SelectSeq(parse_qsl(urlparse(url).query), NoTrackingName)]

\* C23: the canonical link has the host in lower case and no fragment, and
\* its parameters are those of the link that are no tracking parameters
\* (utm_*, fbclid, gclid, igshid), in their order; so two links that differ
\* only in host case, fragment or tracking parameters have one canonical
\* form, and entries without id and guid that have such links and equal
\* titles have one key.
C23_Canonical ==
    /\ \A e \in KeyedLooked :
          /\ urlparse(canonicalise_url(e.link)).netloc = StrLower(urlparse(e.link).netloc)
          /\ urlparse(canonicalise_url(e.link)).fragment = <<>>
          /\ parse_qsl(urlparse(canonicalise_url(e.link)).query) = LinkEssence(e.link).params
    /\ \A e1, e2 \in KeyedLooked :
          LinkEssence(e1.link) = LinkEssence(e2.link) =>
              /\ canonicalise_url(e1.link) = canonicalise_url(e2.link)
              /\ (e1.id = <<>> /\ e1.guid = <<>> /\ e2.id = <<>> /\ e2.guid = <<>>
                     /\ e1.title = e2.title) => _dedupe_key(e1) = _dedupe_key(e2)

\* the host of a link in lower case, without "www." where it begins with it
HostLessLeadingWww(url) ==
    LET host == StrLower(urlparse(url).netloc)
    IN  IF Prefix(host, Len(WWW_DOT)) = WWW_DOT THEN From(host, Len(WWW_DOT) + 1) ELSE host

\* C25: the domain of a Match is the host of the entry's link in lower
\* case with only a leading "www." removed; a "www." further in is kept.
C25_DomainLeadingWww ==
    \A k \in 1..Len(all_matches) :
        (\E e \in Range(Keyed) : e.n = all_matches[k].n) =>
            all_matches[k].domain = HostLessLeadingWww(all_matches[k].link)

\* C24: decode_bytes_best_effort raises for no bytes and no hint, and
\* returns the bytes as decoded by the first of hint, UTF-8, UTF-8 with BOM
\* and Latin-1 under which they can be decoded; bytes that none of the
\* first three can decode come out as Latin-1.
C24_FirstDecodable ==
    decoded.done =>
        /\ ~decoded.raised
        /\ decoded.text
             = decode_from_strict(data, <<apparent_encoding, "utf-8", "utf-8-sig", "latin-1">>, 1).text

\* the key of the entry the loop body is about to run for
KeyOfNext == Facts(client_patterns, Head(cur)).key

\* C26: the key of an entry goes into seen before its text is looked at:
\* a round of the loop leaves the entry's key in seen whether or not the
\* text is blank or names a client, and a round for an entry whose key is
\* in seen already appends nothing; so an entry that was blank or matched
\* no client suppresses every later entry of the scan with its key.
C26_KeyBeforeText ==
    /\ [][ProcessEntry => KeyOfNext \in seen']_vars
    /\ [][ProcessEntry /\ KeyOfNext \in seen => all_matches' = all_matches /\ seen' = seen]_vars
    /\ [](\A e \in KeyedLooked : _dedupe_key(e) \in seen)

\* the scan looked at "Artisan", which names no client, and at "Art four",
\* which names Art and has the same id, and returned no Match
C26_Witness ==
    /\ pc = "done"
    /\ {e.n : e \in KeyedLooked} = {60, 54}
    /\ result = <<>>

\* entry e of the catalogue lies in the lookback window of the scan
InWindow(e) == within_days(parse_datetime_from_entry(e), days, now)

\* C27: recency is tested before the key is: the loop body runs for entries
\* in the window only, every key in seen is the key of an entry in the
\* window the loop body ran for, and E_art, which shares its key with the
\* too old E_old and with no other entry, has its Match in the returned
\* list whenever a feed handed it over, E_old before it or not.
C27_RecencyBeforeDedupe ==
    /\ [][ProcessEntry => InWindow(Head(cur))]_vars
    /\ [](\A key \in seen :
             \E w \in looked : FactsAt(w).key = key /\ InWindow(Catalogue[w[2]]))
    /\ [](pc = "done" =>
             \A j \in Tasks :
                 (\E x \in 1..Len(Served(j)) : Served(j)[x].n = E_art.n) =>
                     \E k \in 1..Len(result) : result[k].n = E_art.n)

\* a feed served E_old and then E_art, which have one key, and the scan
\* returned the Match of E_art
C27_Witness ==
    /\ pc = "done"
    /\ \E j \in Tasks : ~task[j].failed /\ task[j].entries = <<E_old, E_art>>
    /\ \E k \in 1..Len(result) : result[k].n = E_art.n
    /\ _dedupe_key(E_old) = _dedupe_key(E_art)

====
